---- MODULE Spec2Model ----
(***************************************************************************)
(* Attendance tracker (React front-end over a hosted Postgres with row     *)
(* level security).  The model covers the remote tables and their          *)
(* policies, the Daily Marking Workflow (DailyAttendance), the roster      *)
(* manager (StudentManagement), the record viewers and the monthly report. *)
(*                                                                         *)
(* Text values (names, classes, register numbers, ...) are tuples of       *)
(* one-character strings so that String.prototype.trim can be modelled.    *)
(* Calendar dates are <<year, month, day>>; the 'YYYY-MM-DD' strings of    *)
(* the code compare exactly like these triples.                            *)
(***************************************************************************)
EXTENDS Integers, Sequences, FiniteSets, Bags, TLC

(***************************************************************************)
(* Bounds of the model                                                     *)
(***************************************************************************)
\* Rows the attendance table may hold (inserts beyond it are not explored).
MaxRows == 3
\* Rows the students table of the surrogate-id revision may hold.
MaxStudents == 2
\* updateStudent() requests one session may have outstanding.
MaxInFlight == 2

(***************************************************************************)
(* Small universe                                                          *)
(***************************************************************************)
Editors == {1, 2}                 \* browser sessions showing DailyAttendance
U1 == "u1"                        \* the signed-in teacher (auth.uid())
U2 == "u2"                        \* another teacher, signed in elsewhere
NoUser == "null"                  \* userData.user === null

R1 == <<"r", "1">>                \* register numbers
R2 == <<"r", "2">>
R3 == <<"r", "3">>
D1 == <<2024, 2, 29>>             \* dates offered by the date input
D2 == <<2024, 3, 1>>
Dates == {D1, D2}
All == "all"                      \* the 'all' value of the status, shift and year selects
AllText == <<"a", "l", "l">>      \* 'all' in the department and class selects

Status == {"present", "absent"}

\* The roster the daily workflow starts from (rows of table students).
Stu1 == [register_number |-> R1, roll_number |-> <<"1">>, name |-> <<"a">>,
         class |-> <<"c", "s">>, department |-> <<"b", "s", "c">>,
         shift |-> 1, year |-> "year1", added_by |-> U1, created_at |-> 1]
Stu3 == [register_number |-> R3, roll_number |-> <<"3">>, name |-> <<"c">>,
         class |-> <<"c", "s">>, department |-> <<"b", "s", "c">>,
         shift |-> 2, year |-> "year3", added_by |-> U1, created_at |-> 3]
Stu2 == [register_number |-> R2, roll_number |-> <<"2">>, name |-> <<"b">>,
         class |-> <<"c", "s">>, department |-> <<"b", "c", "a">>,
         shift |-> 2, year |-> "year2", added_by |-> U1, created_at |-> 2]

(***************************************************************************)
(* Generic helpers                                                         *)
(***************************************************************************)
Range(s) == {s[i] : i \in DOMAIN s}

\* Code points of the characters the model uses (text ordering).
CharCode(c) ==
  CASE c = " " -> 32 [] c = "1" -> 49 [] c = "2" -> 50 [] c = "3" -> 51
    [] c = "a" -> 97 [] c = "b" -> 98 [] c = "c" -> 99 [] c = "l" -> 108
    [] c = "m" -> 109 [] c = "r" -> 114 [] c = "s" -> 115
    [] c = "x" -> 120 [] OTHER -> 122

RECURSIVE TextLess(_, _)
\* Lexicographic comparison of two texts (ORDER BY on a text column).
TextLess(a, b) ==
  IF b = <<>> THEN FALSE
  ELSE IF a = <<>> THEN TRUE
  ELSE IF CharCode(Head(a)) # CharCode(Head(b))
       THEN CharCode(Head(a)) < CharCode(Head(b))
       ELSE TextLess(Tail(a), Tail(b))

\* All orderings of a finite set, as sequences without repetition.
Perms(S) ==
  {p \in [1..Cardinality(S) -> S] : \A i, j \in 1..Cardinality(S) : p[i] = p[j] => i = j}

(***************************************************************************)
(* JavaScript objects Record<string, 'present' | 'absent'>: a sequence of  *)
(* [k, v] entries in insertion order, keys unique.                         *)
(***************************************************************************)
EmptyObj == <<>>
ObjKeys(o) == {o[i].k : i \in DOMAIN o}
ObjHas(o, key) == \E i \in DOMAIN o : o[i].k = key
\* o[key]; "undefined" when the key is absent.
ObjGet(o, key) ==
  IF ObjHas(o, key) THEN (CHOOSE e \in Range(o) : e.k = key).v ELSE "undefined"
\* The spread mutated away: { [key]: val }.
ObjPutAlone(o, key, val) == <<[k |-> key, v |-> val]>>

\* { ...o, [key]: val }: an existing key keeps its position, a new one is appended.
ObjPut(o, key, val) ==
  IF ObjHas(o, key)
  THEN [i \in DOMAIN o |-> IF o[i].k = key THEN [k |-> key, v |-> val] ELSE o[i]]
  ELSE Append(o, [k |-> key, v |-> val])
\* The spread mutated to { ...b }.
ObjSpreadSecond(a, b) == b

RECURSIVE ObjSpread(_, _)
\* { ...a, ...b }
ObjSpread(a, b) ==
  IF b = <<>> THEN a ELSE ObjSpread(ObjPut(a, Head(b).k, Head(b).v), Tail(b))
\* JSON.stringify: the entries in order; two objects give the same text iff
\* they hold the same entries in the same order.
JsonStringify(o) == o

(***************************************************************************)
(* Remote data service: tables, constraints and row-level policies          *)
(***************************************************************************)
\* USING (added_by = auth.uid()) on students.
RlsStudents(tbl, uid) == {s \in tbl : s.added_by = uid}
\* USING (recorded_by = auth.uid()) on attendance.
RlsAttendance(tbl, uid) ==
  LET own == {r \in BagToSet(tbl) : r.recorded_by = uid} IN [r \in own |-> tbl[r]]

\* ORDER BY class ASC, created_at ASC.
StudentBefore(a, b) ==
  \/ TextLess(a.class, b.class)
  \/ a.class = b.class /\ a.created_at < b.created_at

RECURSIVE SortStudents(_)
\* The rows of S in that order.
SortStudents(S) ==
  IF S = {} THEN <<>>
  ELSE LET m == CHOOSE x \in S : \A y \in S \ {x} : ~StudentBefore(y, x)
       IN <<m>> \o SortStudents(S \ {m})

\* from('students').select('*').order('class').order('created_at')
SelectStudents(tbl, uid) == SortStudents(RlsStudents(tbl, uid))

\* Table attendance is a bag of rows [student_register_number, status,
\* recorded_by, date]: the id column (a random uuid) only tells apart rows that
\* are otherwise equal, which the bag does by counting them.
Matching(tbl, uid, d, keys) ==
  {r \in BagToSet(RlsAttendance(tbl, uid)) : r.date = d /\ r.student_register_number \in keys}

\* from('attendance').select(...).eq('date', d).in('student_register_number', keys)
SelectAttendance(tbl, uid, d, keys) ==
  LET m == Matching(tbl, uid, d, keys) IN [r \in m |-> tbl[r]]

\* The delete mutated: without the .in(...) filter it removes the day's rows of
\* every student.
DeleteAttendanceOfDay(tbl, uid, d, keys) ==
  LET keep == {r \in BagToSet(tbl) : ~(r.recorded_by = uid /\ r.date = d)}
  IN [r \in keep |-> tbl[r]]

\* from('attendance').delete().eq('date', d).in('student_register_number', keys)
DeleteAttendance(tbl, uid, d, keys) ==
  LET keep == BagToSet(tbl) \ Matching(tbl, uid, d, keys) IN [r \in keep |-> tbl[r]]

\* WITH CHECK (recorded_by = auth.uid()), NOT NULL REFERENCES students(register_number),
\* CHECK (status IN ('present','absent')): the statement is rejected as a whole.
InsertAccepted(stuTbl, uid, recs) ==
  \A i \in DOMAIN recs :
    /\ recs[i].recorded_by = uid
    /\ recs[i].status \in Status
    /\ \E s \in stuTbl : s.register_number = recs[i].student_register_number

RECURSIVE InsertAttendance(_, _)
\* from('attendance').insert(recs): one new row per record.
InsertAttendance(tbl, recs) ==
  IF recs = <<>> THEN tbl
  ELSE InsertAttendance(tbl (+) SetToBag({Head(recs)}), Tail(recs))

\* from('students').delete().eq('register_number', key)
DeleteStudentRow(stuTbl, uid, key) ==
  stuTbl \ {s \in RlsStudents(stuTbl, uid) : s.register_number = key}

\* REFERENCES students(register_number) ON DELETE CASCADE
CascadeAttendance(tbl, stuTbl) ==
  LET keep == {r \in BagToSet(tbl) :
                 \E s \in stuTbl : s.register_number = r.student_register_number}
  IN [r \in keep |-> tbl[r]]

\* The rows of a bag in every order a query without ORDER BY may return them.
RowOrders(b) ==
  LET copies == {<<r, n>> : r \in BagToSet(b), n \in 1..MaxRows} 
      items == {c \in copies : c[2] <= b[c[1]]}
  IN {[i \in DOMAIN p |-> p[i][1]] : p \in Perms(items)}

(***************************************************************************)
(* State                                                                   *)
(***************************************************************************)
VARIABLES
  tblUsers,            \* table users (profile rows): set of ids
  tblStudents,         \* table students
  tblAttendance,       \* table attendance
  students,            \* DailyAttendance state, one per editor session
  attendance,
  existingAttendance,
  loading,
  saving,
  selectedDate,
  quickFilter,
  departmentFilter,
  classFilter,
  shiftFilter,
  yearFilter,
  rosterLoad,          \* loadStudents() awaiting its response
  attLoads,            \* loadExistingAttendance() calls awaiting their response
  savePc,              \* where saveAttendance() is: "idle", "delete", "insert"
  saveCtx,             \* what the running saveAttendance() closed over
  alertMsg,            \* the alert() each session's last handler step showed, if any
  smStudents,          \* StudentManagement state: students
  smRosterLoad,        \* StudentManagement's loadStudents() awaiting its response
  confirmed,           \* whether the last delete handler's confirm() was accepted
  issued,              \* the requests the last roster or delete handler sent
  authUser,            \* the identity auth.getUser() gave the last addStudent(), "none" if not asked
  smRevision,          \* the revision of the app the session runs: natural-key or surrogate-id
  newStudent,          \* StudentManagement state: the add-student form
  showAddForm,
  smAlert,             \* the alert() the last StudentManagement handler showed
  lastSubmit,          \* how addStudent() left its validation, if it ran since the last edit
  tblStudentsById,     \* table students of the surrogate-id revision
  month,               \* MonthlyAnalysis state
  year,
  reportDoc,           \* the PDF the last successful generateReport() saved
  reportAlert,         \* the alert() the last generateReport() showed
  reportErr,           \* the request of the last generateReport() that failed
  showViewer,          \* DailyAttendance state: the viewer is rendered instead
  vStudents,           \* AttendanceViewer state: students
  attendanceRecords,
  vLoading,
  vSelectedDate,
  vDepartmentFilter,
  vClassFilter,
  vShiftFilter,
  vYearFilter,
  statusFilter,
  vLoads,              \* the viewer's requests awaiting their response
  dvStudents,          \* destructive AttendanceViewer state: students
  dvRecords,           \*   attendanceRecords
  dvLoading,
  dvLoads,             \* its requests awaiting their response
  dvAlert,             \* the alert() its last handler showed
  dvStatusFilter,      \*   statusFilter
  dvClassFilter,       \*   classFilter
  editingStudent,      \* StudentManagement state: <<>> for null, else <<the student edited>>
  smLoading,           \* StudentManagement state: loading
  smUpdates            \* the update requests of updateStudent() awaiting their response

dbVars == <<tblUsers, tblStudents, tblAttendance>>
filterVars == <<quickFilter, departmentFilter, classFilter, shiftFilter, yearFilter>>
dailyVars == <<students, attendance, existingAttendance, loading, saving, selectedDate,
               rosterLoad, attLoads, savePc, saveCtx, alertMsg>>
smVars == <<smStudents, smRosterLoad>>
obsVars == <<confirmed, issued, authUser>>
formVars == <<smRevision, newStudent, showAddForm, smAlert, lastSubmit, tblStudentsById>>
reportVars == <<month, year, reportDoc, reportAlert, reportErr>>
vFilterVars == <<vDepartmentFilter, vClassFilter, vShiftFilter, vYearFilter, statusFilter>>
viewerVars == <<vStudents, attendanceRecords, vLoading, vSelectedDate, vFilterVars, vLoads>>
dvFilterVars == <<dvStatusFilter, dvClassFilter>>
dvVars == <<dvStudents, dvRecords, dvLoading, dvLoads, dvAlert, dvFilterVars>>
editVars == <<editingStudent, smLoading, smUpdates>>
pageVars == <<formVars, reportVars, showViewer, viewerVars, dvVars, editVars>>
vars == <<dbVars, dailyVars, filterVars, smVars, obsVars, pageVars>>

\* A request to the remote service; key is the register number an .eq() filter
\* names, <<>> when there is none.
Req(op, table, key) == [op |-> op, table |-> table, key |-> key]
\* deleteError is the error field of the delete response, which saveAttendance()
\* receives and never reads.
NoCtx == [attendance |-> EmptyObj, selectedDate |-> D1, user |-> NoUser,
          deleteError |-> FALSE]

(***************************************************************************)
(* DailyAttendance (natural-key revision)                                  *)
(***************************************************************************)
RegNums(roster) == {roster[i].register_number : i \in DOMAIN roster}

\* parseInt of a shift option value.
ParseInt(s) == CASE s = "1" -> 1 [] s = "2" -> 2 [] OTHER -> 0

\* getFilteredStudents(): the five filters applied one after another.
GetFilteredStudents(e) ==
  LET f0 == students[e]
      ByStatus(s) == ObjGet(attendance[e], s.register_number) = quickFilter[e]
      ByDept(s) == s.department = departmentFilter[e]
      ByClass(s) == s.class = classFilter[e]
      ByShift(s) == s.shift = ParseInt(shiftFilter[e])
      ByYear(s) == s.year = yearFilter[e]
      f1 == IF quickFilter[e] # All THEN SelectSeq(f0, ByStatus) ELSE f0
      f2 == IF departmentFilter[e] # AllText THEN SelectSeq(f1, ByDept) ELSE f1
      f3 == IF classFilter[e] # AllText THEN SelectSeq(f2, ByClass) ELSE f2
      f4 == IF shiftFilter[e] # All THEN SelectSeq(f3, ByShift) ELSE f3
      f5 == IF yearFilter[e] # All THEN SelectSeq(f4, ByYear) ELSE f4
  IN f5

hasChanges(e) == JsonStringify(attendance[e]) # JsonStringify(existingAttendance[e])
totalMarked(e) == Cardinality(ObjKeys(attendance[e]))

\* The marking screen is rendered (not the viewer, not the loading skeleton).
ScreenShown(e) == ~showViewer[e] /\ ~loading[e]
\* The roster part of the screen (students.length > 0).
RosterShown(e) == ScreenShown(e) /\ Len(students[e]) > 0

\* useEffect(() => loadExistingAttendance(), [selectedDate, students]) with the
\* early return on an empty roster: the calls in flight after the effect ran.
EffectLoads(e, roster, d) ==
  IF Len(roster) = 0 THEN attLoads[e]
  ELSE attLoads[e] \cup {[date |-> d, keys |-> RegNums(roster)]}

\* loadStudents(): the response arrives.
LoadStudentsDone(e) ==
  /\ rosterLoad[e]
  /\ \E ok \in BOOLEAN :
       IF ok
       THEN LET data == SelectStudents(tblStudents, U1)
            IN /\ students' = [students EXCEPT ![e] = data]
               /\ attLoads' = [attLoads EXCEPT ![e] = EffectLoads(e, data, selectedDate[e])]
       ELSE UNCHANGED <<students, attLoads>>
  /\ loading' = [loading EXCEPT ![e] = FALSE]
  /\ rosterLoad' = [rosterLoad EXCEPT ![e] = FALSE]
  /\ alertMsg' = [alertMsg EXCEPT ![e] = "none"]
  /\ UNCHANGED <<dbVars, filterVars, smVars, obsVars, pageVars, attendance, existingAttendance, saving,
                 selectedDate, savePc, saveCtx>>

\* The date input's onChange, and the effect it triggers.
SetSelectedDate(e, d) ==
  /\ ScreenShown(e)
  /\ d # selectedDate[e]
  /\ selectedDate' = [selectedDate EXCEPT ![e] = d]
  /\ attLoads' = [attLoads EXCEPT ![e] = EffectLoads(e, students[e], d)]
  /\ alertMsg' = [alertMsg EXCEPT ![e] = "none"]
  /\ UNCHANGED <<dbVars, filterVars, smVars, obsVars, pageVars, students, attendance, existingAttendance, loading,
                 saving, rosterLoad, savePc, saveCtx>>

RECURSIVE RecordsToObj(_, _)
\* data.forEach(record => existingRecords[record.student_register_number] = record.status)
RecordsToObj(data, acc) ==
  IF data = <<>> THEN acc
  ELSE RecordsToObj(Tail(data),
                    ObjPut(acc, Head(data).student_register_number, Head(data).status))

\* loadExistingAttendance(): the response arrives (rows in the order the
\* service returns them, which the query leaves open).
LoadExistingAttendanceDone(e) ==
  /\ \E l \in attLoads[e] :
       /\ attLoads' = [attLoads EXCEPT ![e] = @ \ {l}]
       /\ \E ok \in BOOLEAN :
            IF ok
            THEN \E data \in RowOrders(SelectAttendance(tblAttendance, U1, l.date, l.keys)) :
                   LET existingRecords == RecordsToObj(data, EmptyObj)
                   IN /\ existingAttendance' = [existingAttendance EXCEPT ![e] = existingRecords]
                      /\ attendance' = [attendance EXCEPT ![e] = existingRecords]
            ELSE UNCHANGED <<existingAttendance, attendance>>
  /\ alertMsg' = [alertMsg EXCEPT ![e] = "none"]
  /\ UNCHANGED <<dbVars, filterVars, smVars, obsVars, pageVars, students, loading, saving, selectedDate,
                 rosterLoad, savePc, saveCtx>>

\* handleAttendanceChange(studentRegisterNumber, status): the Present / Absent
\* button of a listed student.
HandleAttendanceChange(e, key, status) ==
  /\ RosterShown(e)
  /\ key \in RegNums(GetFilteredStudents(e))
  /\ attendance' = [attendance EXCEPT ![e] = ObjPut(@, key, status)]
  /\ alertMsg' = [alertMsg EXCEPT ![e] = "none"]
  /\ UNCHANGED <<dbVars, filterVars, smVars, obsVars, pageVars, students, existingAttendance, loading, saving,
                 selectedDate, rosterLoad, attLoads, savePc, saveCtx>>

RECURSIVE MarkedObj(_, _)
\* getFilteredStudents().forEach(student => all[student.register_number] = status)
MarkedObj(roster, status) ==
  IF roster = <<>> THEN EmptyObj
  ELSE ObjSpread(<<[k |-> Head(roster).register_number, v |-> status]>>,
                 MarkedObj(Tail(roster), status))

\* markAllPresent() / markAllAbsent()
MarkAll(e, status) ==
  /\ smRevision = "key"
  /\ RosterShown(e)
  /\ attendance' = [attendance EXCEPT
                      ![e] = ObjSpread(@, MarkedObj(GetFilteredStudents(e), status))]
  /\ alertMsg' = [alertMsg EXCEPT ![e] = "none"]
  /\ UNCHANGED <<dbVars, filterVars, smVars, obsVars, pageVars, students, existingAttendance, loading, saving,
                 selectedDate, rosterLoad, attLoads, savePc, saveCtx>>

\* getFilteredStudents() of the surrogate-id revision, which has the quick
\* filter only.  (A student's id is written in the register_number field.)
GetFilteredStudentsById(e) ==
  LET ByStatus(s) == ObjGet(attendance[e], s.register_number) = quickFilter[e]
  IN IF quickFilter[e] = All THEN students[e] ELSE SelectSeq(students[e], ByStatus)

\* markAllPresent() / markAllAbsent() of the surrogate-id revision:
\* students.forEach(student => all[student.id] = status); setAttendance(all)
MarkAllById(e, status) ==
  /\ smRevision = "id"
  /\ RosterShown(e)
  /\ attendance' = [attendance EXCEPT ![e] = MarkedObj(students[e], status)]
  /\ alertMsg' = [alertMsg EXCEPT ![e] = "none"]
  /\ UNCHANGED <<dbVars, filterVars, smVars, obsVars, pageVars, students, existingAttendance, loading, saving,
                 selectedDate, rosterLoad, attLoads, savePc, saveCtx>>

\* Object.entries(attendance).map(...) and recordsToInsert: one record per entry,
\* stamped with the acting user and the selected date.
RecordsToInsert(att, uid, d) ==
  [i \in DOMAIN att |-> [student_register_number |-> att[i].k, status |-> att[i].v,
                         recorded_by |-> uid, date |-> d]]

\* The Save button can be pressed: rendered (totalMarked > 0) and not disabled.
SaveEnabled(e) ==
  /\ RosterShown(e)
  /\ totalMarked(e) > 0
  /\ ~saving[e]
  /\ hasChanges(e)

\* saveAttendance(), up to the answer of auth.getUser().
SaveAttendanceStart(e) ==
  /\ SaveEnabled(e)
  /\ savePc[e] = "idle"
  /\ \E user \in {U1, NoUser} :
       IF user = NoUser
       THEN /\ alertMsg' = [alertMsg EXCEPT ![e] = "Failed to save attendance"]
            /\ UNCHANGED <<saving, savePc, saveCtx>>
       ELSE /\ saving' = [saving EXCEPT ![e] = TRUE]
            /\ savePc' = [savePc EXCEPT ![e] = "delete"]
            /\ saveCtx' = [saveCtx EXCEPT ![e] = [attendance |-> attendance[e],
                                                   selectedDate |-> selectedDate[e],
                                                   user |-> user,
                                                   deleteError |-> FALSE]]
            /\ alertMsg' = [alertMsg EXCEPT ![e] = "none"]
  /\ UNCHANGED <<dbVars, filterVars, smVars, obsVars, pageVars, students, attendance, existingAttendance,
                 loading, selectedDate, rosterLoad, attLoads>>

\* The table after the delete request of saveAttendance() was served (ok) or
\* failed; the code does not look at the outcome.
AfterSaveDelete(tbl, ctx, ok) ==
  IF ok
  THEN DeleteAttendance(tbl, ctx.user, ctx.selectedDate, ObjKeys(ctx.attendance))
  ELSE tbl

\* saveAttendance(): the delete of the day's rows returns.
SaveAttendanceDelete(e) ==
  /\ savePc[e] = "delete"
  /\ \E ok \in BOOLEAN :
       /\ tblAttendance' = AfterSaveDelete(tblAttendance, saveCtx[e], ok)
       /\ saveCtx' = [saveCtx EXCEPT ![e].deleteError = ~ok]
  /\ savePc' = [savePc EXCEPT ![e] = "insert"]
  /\ alertMsg' = [alertMsg EXCEPT ![e] = "none"]
  /\ UNCHANGED <<tblUsers, tblStudents, filterVars, smVars, obsVars, pageVars, students, attendance,
                 existingAttendance, loading, saving, selectedDate, rosterLoad, attLoads>>

\* saveAttendance(): the insert returns; then the success path or the catch
\* block, and finally setSaving(false).
SaveAttendanceInsert(e) ==
  /\ savePc[e] = "insert"
  /\ LET ctx == saveCtx[e]
         recs == RecordsToInsert(ctx.attendance, ctx.user, ctx.selectedDate)
     IN /\ BagCardinality(tblAttendance) + Len(recs) <= MaxRows
        /\ \E netOk \in BOOLEAN :
             IF netOk /\ InsertAccepted(tblStudents, ctx.user, recs)
             THEN /\ tblAttendance' = InsertAttendance(tblAttendance, recs)
                  /\ existingAttendance' = [existingAttendance EXCEPT ![e] = ctx.attendance]
                  /\ alertMsg' = [alertMsg EXCEPT ![e] = "Attendance saved successfully!"]
             ELSE /\ alertMsg' = [alertMsg EXCEPT ![e] = "Failed to save attendance"]
                  /\ UNCHANGED <<tblAttendance, existingAttendance>>
  /\ saving' = [saving EXCEPT ![e] = FALSE]
  /\ savePc' = [savePc EXCEPT ![e] = "idle"]
  /\ saveCtx' = [saveCtx EXCEPT ![e] = NoCtx]
  /\ UNCHANGED <<tblUsers, tblStudents, filterVars, smVars, obsVars, pageVars, students, attendance,
                 loading, selectedDate, rosterLoad, attLoads>>

(***************************************************************************)
(* StudentManagement (natural-key revision), run in a session of its own   *)
(***************************************************************************)
\* loadStudents() of StudentManagement: the response arrives.
SmLoadStudentsDone ==
  /\ smRosterLoad
  /\ smRosterLoad' = FALSE
  /\ \E ok \in BOOLEAN :
       smStudents' = IF ~ok THEN smStudents
                     ELSE IF smRevision = "id" THEN SelectStudents(tblStudentsById, U1)
                     ELSE SelectStudents(tblStudents, U1)
  /\ UNCHANGED <<dbVars, dailyVars, filterVars, obsVars, pageVars>>

\* String.prototype.trim
RECURSIVE TrimStart(_)
TrimStart(t) == IF t # <<>> /\ Head(t) = " " THEN TrimStart(Tail(t)) ELSE t
RECURSIVE TrimEnd(_)
TrimEnd(t) ==
  IF t # <<>> /\ t[Len(t)] = " " THEN TrimEnd(SubSeq(t, 1, Len(t) - 1)) ELSE t
Trim(t) == TrimEnd(TrimStart(t))

\* The add-student form as useState() creates it and as a successful add resets it.
EmptyForm == [name |-> <<>>, class |-> <<>>, roll_number |-> <<>>,
              register_number |-> <<>>, department |-> <<>>, shift |-> 1,
              year |-> "year1"]
EmptyFormById == [name |-> <<>>, class |-> <<>>]

\* What the user types into a text input, and the options of the two selects.
FieldTexts == {<<>>, <<" ">>, <<"x", " ">>}
TextFields == {"name", "class", "roll_number", "register_number", "department"}
YearOptions == {"year1", "year2", "year3"}
ShiftOptions == {1, 2}

\* The Add Student / Cancel buttons.
ToggleAddForm ==
  /\ showAddForm' = ~showAddForm
  /\ UNCHANGED <<dbVars, dailyVars, filterVars, smVars, obsVars, smRevision, newStudent,
                 smAlert, lastSubmit, tblStudentsById, reportVars, editVars, showViewer, viewerVars,
                 dvVars>>

\* onChange of an input or select of the form:
\* setNewStudent({ ...newStudent, [field]: value })
SetNewStudent(field, value) ==
  /\ showAddForm
  /\ field \in DOMAIN newStudent
  /\ newStudent[field] # value
  /\ newStudent' = [newStudent EXCEPT ![field] = value]
  /\ lastSubmit' = "none"
  /\ UNCHANGED <<dbVars, dailyVars, filterVars, smVars, obsVars, smRevision, showAddForm,
                 smAlert, tblStudentsById, reportVars, editVars, showViewer, viewerVars, dvVars>>

\* The validation mutated: the fields are compared without trim().
FormIncompleteUntrimmed(ns) ==
  \/ ns.name = <<>> \/ ns.class = <<>> \/ ns.roll_number = <<>>
  \/ ns.register_number = <<>> \/ ns.department = <<>> \/ ns.year = ""

\* The guard of addStudent(): !name.trim() || !class.trim() || ... || !year
FormIncomplete(ns) ==
  \/ Trim(ns.name) = <<>> \/ Trim(ns.class) = <<>> \/ Trim(ns.roll_number) = <<>>
  \/ Trim(ns.register_number) = <<>> \/ Trim(ns.department) = <<>> \/ ns.year = ""

\* The guard of addStudent() in the surrogate-id revision.
FormIncompleteById(ns) == Trim(ns.name) = <<>> \/ Trim(ns.class) = <<>>

\* now(): later than every created_at in the table.
NextCreatedAt(stuTbl) ==
  IF stuTbl = {} THEN 1
  ELSE 1 + (CHOOSE n \in {s.created_at : s \in stuTbl} :
              \A s \in stuTbl : s.created_at <= n)

\* The row addStudent() sends; created_at is the column default now().
NewStudentRow(stuTbl, ns, uid) ==
  [register_number |-> Trim(ns.register_number), roll_number |-> Trim(ns.roll_number),
   name |-> Trim(ns.name), class |-> Trim(ns.class), department |-> Trim(ns.department),
   shift |-> ns.shift, year |-> ns.year, added_by |-> uid,
   created_at |-> NextCreatedAt(stuTbl)]

\* PRIMARY KEY, UNIQUE (roll_number), the CHECKs, REFERENCES users(id) and the
\* policy WITH CHECK (added_by = auth.uid()).
InsertStudentAccepted(stuTbl, users, uid, row) ==
  /\ row.added_by = uid
  /\ row.added_by \in users
  /\ row.shift \in ShiftOptions
  /\ row.year \in YearOptions
  /\ \A s \in stuTbl : s.register_number # row.register_number
                        /\ s.roll_number # row.roll_number

AddFailed == "Failed to add student. Please try again."

\* The profile lookup mutated: its result is not looked at.
ProfileAssumed(users, uid) == TRUE

\* from('users').select('id').eq('id', uid).single() returns a row.
ProfileFound(users, uid) == uid \in users

\* addStudent() of the natural-key revision: the validation, auth.getUser(), the
\* profile lookup, the insert and the refresh of the list.
AddStudent ==
  /\ smRevision = "key"
  /\ showAddForm
  /\ IF FormIncomplete(newStudent)
     THEN /\ lastSubmit' = "returned"
          /\ authUser' = "none"
          /\ issued' = <<>>
          /\ smAlert' = "none"
          /\ UNCHANGED <<tblStudents, newStudent, showAddForm, smRosterLoad>>
     ELSE /\ lastSubmit' = "proceeded"
          /\ \E user \in {U1, NoUser}, lookupOk \in BOOLEAN, insertOk \in BOOLEAN :
               LET row == NewStudentRow(tblStudents, newStudent, user)
               IN /\ authUser' = user
                  /\ IF user = NoUser
                        THEN /\ issued' = <<Req("getUser", "auth", <<>>)>>
                             /\ smAlert' = AddFailed
                             /\ UNCHANGED <<tblStudents, newStudent, showAddForm, smRosterLoad>>
                        ELSE IF ~(lookupOk /\ ProfileFound(tblUsers, user))
                        THEN /\ issued' = <<Req("getUser", "auth", <<>>),
                                            Req("select", "users", <<>>)>>
                             /\ smAlert' = AddFailed
                             /\ UNCHANGED <<tblStudents, newStudent, showAddForm, smRosterLoad>>
                        ELSE IF ~(insertOk /\ InsertStudentAccepted(tblStudents, tblUsers, user, row))
                        THEN /\ issued' = <<Req("getUser", "auth", <<>>),
                                            Req("select", "users", <<>>),
                                            Req("insert", "students", row.register_number)>>
                             /\ smAlert' = AddFailed
                             /\ UNCHANGED <<tblStudents, newStudent, showAddForm, smRosterLoad>>
                        ELSE /\ tblStudents' = tblStudents \cup {row}
                             /\ newStudent' = EmptyForm
                             /\ showAddForm' = FALSE
                             /\ smRosterLoad' = TRUE
                             /\ issued' = <<Req("getUser", "auth", <<>>),
                                            Req("select", "users", <<>>),
                                            Req("insert", "students", row.register_number),
                                            Req("select", "students", <<>>)>>
                             /\ smAlert' = "none"
  /\ UNCHANGED <<tblUsers, tblAttendance, dailyVars, filterVars, smStudents, confirmed,
                 smRevision, tblStudentsById, reportVars, editVars, showViewer, viewerVars, dvVars>>

\* addStudent() of the surrogate-id revision: the validation, auth.getUser(),
\* the insert and the refresh of the list.
AddStudentById ==
  /\ smRevision = "id"
  /\ showAddForm
  /\ IF FormIncompleteById(newStudent)
     THEN /\ lastSubmit' = "returned"
          /\ authUser' = "none"
          /\ issued' = <<>>
          /\ smAlert' = "none"
          /\ UNCHANGED <<tblStudentsById, newStudent, showAddForm, smRosterLoad>>
     ELSE /\ lastSubmit' = "proceeded"
          /\ Cardinality(tblStudentsById) < MaxStudents
          /\ \E user \in {U1, NoUser}, insertOk \in BOOLEAN :
               LET row == [id |-> Cardinality(tblStudentsById) + 1,
                           name |-> Trim(newStudent.name),
                           class |-> Trim(newStudent.class), added_by |-> user,
                           created_at |-> Cardinality(tblStudentsById) + 1]
               IN /\ authUser' = user
                  /\ IF user = NoUser
                        THEN /\ issued' = <<Req("getUser", "auth", <<>>)>>
                             /\ smAlert' = AddFailed
                             /\ UNCHANGED <<tblStudentsById, newStudent, showAddForm, smRosterLoad>>
                        ELSE IF ~(insertOk /\ user \in tblUsers)
                        THEN /\ issued' = <<Req("getUser", "auth", <<>>),
                                            Req("insert", "students", <<>>)>>
                             /\ smAlert' = AddFailed
                             /\ UNCHANGED <<tblStudentsById, newStudent, showAddForm, smRosterLoad>>
                        ELSE /\ tblStudentsById' = tblStudentsById \cup {row}
                             /\ newStudent' = EmptyFormById
                             /\ showAddForm' = FALSE
                             /\ smRosterLoad' = TRUE
                             /\ issued' = <<Req("getUser", "auth", <<>>),
                                            Req("insert", "students", <<>>),
                                            Req("select", "students", <<>>)>>
                             /\ smAlert' = "none"
  /\ UNCHANGED <<dbVars, dailyVars, filterVars, smStudents, confirmed, smRevision,
                 reportVars, editVars, showViewer, viewerVars, dvVars>>

\* The confirm() prompt mutated: its answer is not looked at.
ConfirmIgnored(answer) == TRUE

\* if (!confirm(...)) return
ConfirmAccepted(answer) == answer

\* deleteStudent() against a foreign key declared without ON DELETE CASCADE
\* whose violation went unnoticed: the attendance rows stay.
AfterDeleteStudentNoCascade(stuTbl, attTbl, uid, key) ==
  [students |-> DeleteStudentRow(stuTbl, uid, key), attendance |-> attTbl]

\* The tables after from('students').delete().eq('register_number', key) was
\* served: the student row and, by the cascade, its attendance rows are gone.
AfterDeleteStudent(stuTbl, attTbl, uid, key) ==
  LET stu == DeleteStudentRow(stuTbl, uid, key)
  IN [students |-> stu, attendance |-> CascadeAttendance(attTbl, stu)]

\* deleteStudent(registerNumber): the Delete button of a listed student, the
\* confirm() prompt, the delete request and the refresh of the list.
DeleteStudent(key, answer) ==
  /\ smRevision = "key"
  /\ ~smRosterLoad
  /\ key \in RegNums(smStudents)
  /\ confirmed' = answer
  /\ UNCHANGED authUser
  /\ IF ~ConfirmAccepted(answer)
     THEN /\ issued' = <<>>
          /\ UNCHANGED <<dbVars, dailyVars, filterVars, smVars, pageVars>>
     ELSE \E ok \in BOOLEAN :
            IF ok
            THEN LET after == AfterDeleteStudent(tblStudents, tblAttendance, U1, key)
                 IN /\ tblStudents' = after.students
                    /\ tblAttendance' = after.attendance
                    /\ \E loadOk \in BOOLEAN :
                         smStudents' = IF loadOk THEN SelectStudents(after.students, U1)
                                       ELSE smStudents
                    /\ issued' = <<Req("delete", "students", key),
                                   Req("select", "students", <<>>)>>
                    /\ UNCHANGED <<tblUsers, dailyVars, filterVars, smRosterLoad, pageVars>>
            ELSE /\ issued' = <<Req("delete", "students", key)>>
                 /\ UNCHANGED <<dbVars, dailyVars, filterVars, smVars, pageVars>>

\* What the user types into the name input while editing.
EditTexts == {<<"x", " ">>}

\* The Edit button of a listed student: setEditingStudent(student)
StartEdit(i) ==
  /\ ~smRosterLoad
  /\ i \in DOMAIN smStudents
  /\ editingStudent # <<smStudents[i]>>
  /\ editingStudent' = <<smStudents[i]>>
  /\ UNCHANGED <<dbVars, dailyVars, filterVars, smVars, obsVars, formVars, reportVars,
                 showViewer, viewerVars, dvVars, smLoading, smUpdates>>

\* onChange of an input while editing:
\* setEditingStudent({ ...editingStudent, [field]: value })
SetEditingStudent(field, value) ==
  /\ editingStudent # <<>>
  /\ editingStudent[1][field] # value
  /\ editingStudent' = <<[editingStudent[1] EXCEPT ![field] = value]>>
  /\ UNCHANGED <<dbVars, dailyVars, filterVars, smVars, obsVars, formVars, reportVars,
                 showViewer, viewerVars, dvVars, smLoading, smUpdates>>

\* The Cancel button while editing: setEditingStudent(null)
CancelEdit ==
  /\ editingStudent # <<>>
  /\ editingStudent' = <<>>
  /\ UNCHANGED <<dbVars, dailyVars, filterVars, smVars, obsVars, formVars, reportVars,
                 showViewer, viewerVars, dvVars, smLoading, smUpdates>>

\* The request updateStudent() sends: .update({...}).eq('register_number', key);
\* register_number is not among the columns written.
UpdateRequest(es) ==
  [key |-> es.register_number,
   set |-> [name |-> Trim(es.name), class |-> Trim(es.class),
            roll_number |-> Trim(es.roll_number), department |-> Trim(es.department),
            shift |-> es.shift, year |-> es.year]]

\* The request of the surrogate-id revision: .update({ name, class }).eq('id', id)
UpdateRequestById(es) ==
  [key |-> es.id, set |-> [name |-> Trim(es.name), class |-> Trim(es.class)]]

\* The Save button of the edit: enabled unless the surrogate-id revision is
\* loading (disabled={loading}); the natural-key revision never disables it.
UpdateEnabled ==
  /\ editingStudent # <<>>
  /\ smRevision = "id" => ~smLoading

\* updateStudent(), up to the request being sent.
UpdateStudent ==
  /\ UpdateEnabled
  /\ Len(smUpdates) < MaxInFlight
  /\ smLoading' = TRUE
  /\ smUpdates' = Append(smUpdates, IF smRevision = "key"
                                     THEN UpdateRequest(editingStudent[1])
                                     ELSE UpdateRequestById(editingStudent[1]))
  /\ UNCHANGED <<dbVars, dailyVars, filterVars, smVars, obsVars, formVars, reportVars,
                 showViewer, viewerVars, dvVars, editingStudent>>

\* The rows of uid the update of req applies to (policy USING added_by = auth.uid()).
UpdateTargets(stuTbl, uid, req) ==
  {s \in RlsStudents(stuTbl, uid) : s.register_number = req.key}

\* UNIQUE (roll_number) and the CHECKs on shift and year, for the rows as updated.
UpdateAccepted(stuTbl, uid, req) ==
  \/ UpdateTargets(stuTbl, uid, req) = {}
  \/ /\ req.set.shift \in ShiftOptions
     /\ req.set.year \in YearOptions
     /\ Cardinality(UpdateTargets(stuTbl, uid, req)) = 1
     /\ \A s \in stuTbl \ UpdateTargets(stuTbl, uid, req) :
          s.roll_number # req.set.roll_number

\* The update mutated: the .eq('register_number', ...) filter is missing, so
\* every row of the caller is written.
AfterUpdateStudentUnfiltered(stuTbl, uid, req) ==
  {IF s.added_by = uid
   THEN [s EXCEPT !.name = req.set.name, !.class = req.set.class,
                  !.roll_number = req.set.roll_number,
                  !.department = req.set.department, !.shift = req.set.shift,
                  !.year = req.set.year]
   ELSE s : s \in stuTbl}

\* Table students after the update of req was served.
AfterUpdateStudent(stuTbl, uid, req) ==
  {IF s \in UpdateTargets(stuTbl, uid, req)
   THEN [s EXCEPT !.name = req.set.name, !.class = req.set.class,
                  !.roll_number = req.set.roll_number,
                  !.department = req.set.department, !.shift = req.set.shift,
                  !.year = req.set.year]
   ELSE s : s \in stuTbl}

\* The same in the surrogate-id revision: name and class of the row with that id.
AfterUpdateStudentById(stuTbl, uid, req) ==
  {IF s.added_by = uid /\ s.id = req.key
   THEN [s EXCEPT !.name = req.set.name, !.class = req.set.class]
   ELSE s : s \in stuTbl}

UpdateFailed == "Failed to update student. Please try again."

\* updateStudent(): the response to its i-th outstanding request arrives.
UpdateStudentDone(i) ==
  /\ i \in DOMAIN smUpdates
  /\ LET req == smUpdates[i]
     IN \E ok \in BOOLEAN :
          IF ok /\ (smRevision = "key" => UpdateAccepted(tblStudents, U1, req))
          THEN /\ IF smRevision = "key"
                  THEN /\ tblStudents' = AfterUpdateStudent(tblStudents, U1, req)
                       /\ UNCHANGED tblStudentsById
                  ELSE /\ tblStudentsById' = AfterUpdateStudentById(tblStudentsById, U1, req)
                       /\ UNCHANGED tblStudents
               /\ editingStudent' = <<>>
               /\ smRosterLoad' = TRUE
               /\ smAlert' = "none"
          ELSE /\ smAlert' = UpdateFailed
               /\ UNCHANGED <<tblStudents, tblStudentsById, editingStudent, smRosterLoad>>
  /\ smLoading' = FALSE
  /\ smUpdates' = [j \in 1..(Len(smUpdates) - 1) |->
                     IF j < i THEN smUpdates[j] ELSE smUpdates[j + 1]]
  /\ UNCHANGED <<tblUsers, tblAttendance, dailyVars, filterVars, smStudents, obsVars,
                 smRevision, newStudent, showAddForm, lastSubmit, reportVars, showViewer,
                 viewerVars, dvVars>>

(***************************************************************************)
(* MonthlyAnalysis                                                         *)
(***************************************************************************)
\* The months and years the user picks in the two selects.
MonthChoices == {2, 3}
YearChoices == {2023, 2024}

IsLeapYear(y) == (y % 4 = 0 /\ y % 100 # 0) \/ y % 400 = 0
\* The month length mutated: February has 28 days in every year.
DaysInMonthNoLeap(y, m) ==
  IF m = 2 THEN 28 ELSE IF m \in {4, 6, 9, 11} THEN 30 ELSE 31

\* new Date(year, month, 0).getDate()
DaysInMonth(y, m) ==
  IF m = 2 THEN (IF IsLeapYear(y) THEN 29 ELSE 28)
  ELSE IF m \in {4, 6, 9, 11} THEN 30 ELSE 31

\* a <= b on dates ('YYYY-MM-DD' compares the same way).
DateLeq(a, b) ==
  \/ a[1] < b[1]
  \/ a[1] = b[1] /\ a[2] < b[2]
  \/ a[1] = b[1] /\ a[2] = b[2] /\ a[3] <= b[3]

\* The range mutated: it ends on the first day of the next month.
InRangeToNextMonth(d, y, m) ==
  DateLeq(<<y, m, 1>>, d) /\ DateLeq(d, <<y, m + 1, 1>>)

\* .gte('date', startDate).lte('date', endDate)
InRange(d, y, m) ==
  DateLeq(<<y, m, 1>>, d) /\ DateLeq(d, <<y, m, DaysInMonth(y, m)>>)

\* from('attendance').select('*').gte('date', startDate).lte('date', endDate)
SelectMonth(tbl, uid, y, m) ==
  LET own == RlsAttendance(tbl, uid)
      inMonth == {r \in BagToSet(own) : InRange(r.date, y, m)}
  IN [r \in inMonth |-> own[r]]

\* ORDER BY class ASC, name ASC.
StudentBeforeByName(a, b) ==
  \/ TextLess(a.class, b.class)
  \/ a.class = b.class /\ TextLess(a.name, b.name)

RECURSIVE SortStudentsByName(_)
SortStudentsByName(S) ==
  IF S = {} THEN <<>>
  ELSE LET m == CHOOSE x \in S : \A y \in S \ {x} : ~StudentBeforeByName(y, x)
       IN <<m>> \o SortStudentsByName(S \ {m})

\* attendanceData.filter(pred).length for the rows of one student and status.
CountRecords(data, key, status) ==
  LET sel == {r \in BagToSet(data) :
                r.student_register_number = key /\ r.status = status}
  IN BagCardinality([r \in sel |-> data[r]])

\* Math.round mutated to Math.floor.
FloorPercent(p, t) == (100 * p) \div t

\* Math.round((p / t) * 100), for t > 0: the nearest integer, halves upwards.
RoundPercent(p, t) == (200 * p + t) \div (2 * t)

\* value || 'N/A'
OrNA(t) == IF t = <<>> THEN <<"N", "/", "A">> ELSE t

\* students.map(student => ({ ... })): the rows of the report.
ReportData(roster, data) ==
  LET totalWorkingDays == Cardinality({r.date : r \in BagToSet(data)})
  IN [i \in DOMAIN roster |->
        LET presentCount == CountRecords(data, roster[i].register_number, "present")
            absentCount == CountRecords(data, roster[i].register_number, "absent")
        IN [register_number |-> OrNA(roster[i].register_number),
            name |-> roster[i].name,
            department |-> OrNA(roster[i].department),
            class |-> roster[i].class,
            total_working_days |-> totalWorkingDays,
            present_count |-> presentCount,
            absent_count |-> absentCount,
            attendance_percentage |->
              IF totalWorkingDays > 0 THEN RoundPercent(presentCount, totalWorkingDays)
              ELSE 0]]

\* No report was saved yet.
NoDoc == [month |-> 0, year |-> 0, totalWorkingDays |-> 0, body |-> <<>>]
ReportGenerated == "Report generated successfully!"
ReportFailed == "Failed to generate report. Please try again."
NoStudentsFound == "No students found. Please add students first."

\* The month select.
SetMonth(m) ==
  /\ m # month
  /\ month' = m
  /\ reportAlert' = "none"
  /\ reportErr' = "none"
  /\ UNCHANGED <<dbVars, dailyVars, filterVars, smVars, obsVars, formVars, editVars, year, reportDoc,
                 showViewer, viewerVars, dvVars>>

\* The year select.
SetYear(y) ==
  /\ y # year
  /\ year' = y
  /\ reportAlert' = "none"
  /\ reportErr' = "none"
  /\ UNCHANGED <<dbVars, dailyVars, filterVars, smVars, obsVars, formVars, editVars, month, reportDoc,
                 showViewer, viewerVars, dvVars>>

\* generateReport(): the two fetches, the computation, the PDF and the alert.
GenerateReport ==
  /\ \E studentsOk \in BOOLEAN, attendanceOk \in BOOLEAN :
       LET roster == SortStudentsByName(RlsStudents(tblStudents, U1))
           attendanceData == SelectMonth(tblAttendance, U1, year, month)
       IN IF ~studentsOk
          THEN /\ reportAlert' = ReportFailed
               /\ reportErr' = "students"
               /\ UNCHANGED reportDoc
          ELSE IF Len(roster) = 0
          THEN /\ reportAlert' = NoStudentsFound
               /\ reportErr' = "none"
               /\ UNCHANGED reportDoc
          ELSE IF ~attendanceOk
          THEN /\ reportAlert' = ReportFailed
               /\ reportErr' = "attendance"
               /\ UNCHANGED reportDoc
          ELSE /\ reportDoc' = [month |-> month, year |-> year,
                                totalWorkingDays |->
                                  Cardinality({r.date : r \in BagToSet(attendanceData)}),
                                body |-> ReportData(roster, attendanceData)]
               /\ reportAlert' = ReportGenerated
               /\ reportErr' = "none"
  /\ UNCHANGED <<dbVars, dailyVars, filterVars, smVars, obsVars, formVars, editVars, month, year,
                 showViewer, viewerVars, dvVars>>

(***************************************************************************)
(* The filter selects of DailyAttendance                                   *)
(***************************************************************************)
\* The options of the department and class selects: 'all' and the distinct
\* values of the roster.
DepartmentOptions(roster) == {AllText} \cup {roster[i].department : i \in DOMAIN roster}
ClassOptions(roster) == {AllText} \cup {roster[i].class : i \in DOMAIN roster}
ShiftFilterOptions == {All, "1", "2"}
YearFilterOptions == {All, "year1", "year2", "year3"}
QuickFilterOptions == {All, "present", "absent"}
StatusFilterOptions == {All, "present", "absent", "not_marked"}

\* onChange of one of the five filter selects of DailyAttendance.
SetFilter(e, f, v) ==
  /\ RosterShown(e)
  /\ \/ f = "quick" /\ v # quickFilter[e]
     \/ f = "department" /\ v # departmentFilter[e]
     \/ f = "class" /\ v # classFilter[e]
     \/ f = "shift" /\ v # shiftFilter[e]
     \/ f = "year" /\ v # yearFilter[e]
  /\ quickFilter' = IF f = "quick" THEN [quickFilter EXCEPT ![e] = v] ELSE quickFilter
  /\ departmentFilter' = IF f = "department" THEN [departmentFilter EXCEPT ![e] = v]
                         ELSE departmentFilter
  /\ classFilter' = IF f = "class" THEN [classFilter EXCEPT ![e] = v] ELSE classFilter
  /\ shiftFilter' = IF f = "shift" THEN [shiftFilter EXCEPT ![e] = v] ELSE shiftFilter
  /\ yearFilter' = IF f = "year" THEN [yearFilter EXCEPT ![e] = v] ELSE yearFilter
  /\ alertMsg' = [alertMsg EXCEPT ![e] = "none"]
  /\ UNCHANGED <<dbVars, smVars, obsVars, pageVars, students, attendance, existingAttendance,
                 loading, saving, selectedDate, rosterLoad, attLoads, savePc, saveCtx>>

(***************************************************************************)
(* AttendanceViewer (read-only revision), opened from DailyAttendance      *)
(***************************************************************************)
\* The state of a viewer that is not mounted, and of one just created.
ViewerUnmounted ==
  /\ vStudents' = <<>>
  /\ attendanceRecords' = <<>>
  /\ vLoading' = FALSE
  /\ vSelectedDate' = D1
  /\ vDepartmentFilter' = AllText
  /\ vClassFilter' = AllText
  /\ vShiftFilter' = All
  /\ vYearFilter' = All
  /\ statusFilter' = All

\* The effect that calls loadStudents() and loadAttendanceRecords() for date d.
ViewerEffectLoads(d) == {[kind |-> "students", date |-> d], [kind |-> "attendance", date |-> d]}

\* The View Records button of DailyAttendance: the viewer mounts and its
\* effect starts both loads.
OpenViewer(e) ==
  /\ ScreenShown(e)
  /\ showViewer' = [showViewer EXCEPT ![e] = TRUE]
  /\ vStudents' = <<>>
  /\ attendanceRecords' = <<>>
  /\ vLoading' = TRUE
  /\ vSelectedDate' = D1
  /\ vDepartmentFilter' = AllText
  /\ vClassFilter' = AllText
  /\ vShiftFilter' = All
  /\ vYearFilter' = All
  /\ statusFilter' = All
  /\ vLoads' = ViewerEffectLoads(D1)
  /\ alertMsg' = [alertMsg EXCEPT ![e] = "none"]
  /\ UNCHANGED <<dbVars, filterVars, smVars, obsVars, formVars, reportVars, editVars, dvVars, students,
                 attendance, existingAttendance, loading, saving, selectedDate, rosterLoad,
                 attLoads, savePc, saveCtx>>

\* onBack: the viewer unmounts; its state and the responses it waits for are dropped.
CloseViewer(e) ==
  /\ showViewer[e]
  /\ ~vLoading
  /\ showViewer' = [showViewer EXCEPT ![e] = FALSE]
  /\ ViewerUnmounted
  /\ vLoads' = {}
  /\ UNCHANGED <<dbVars, dailyVars, filterVars, smVars, obsVars, formVars, reportVars, editVars, dvVars>>

\* loadStudents() of the viewer: the response arrives.
ViewerLoadStudentsDone ==
  /\ \E l \in vLoads :
       /\ l.kind = "students"
       /\ vLoads' = vLoads \ {l}
  /\ \E ok \in BOOLEAN :
       vStudents' = IF ok THEN SelectStudents(tblStudents, U1) ELSE vStudents
  /\ UNCHANGED <<dbVars, dailyVars, filterVars, smVars, obsVars, formVars, reportVars, editVars, dvVars,
                 showViewer, attendanceRecords, vLoading, vSelectedDate, vFilterVars>>

\* .select('student_register_number, status, date')
ViewerRecord(r) ==
  [student_register_number |-> r.student_register_number, status |-> r.status,
   date |-> r.date]

\* ORDER BY student_register_number ASC (rows of one student in any order).
OrderedByStudent(data) ==
  \A i, j \in DOMAIN data :
    i < j => ~TextLess(data[j].student_register_number, data[i].student_register_number)

\* from('attendance').select(...).eq('date', d).order('student_register_number')
SelectByDate(tbl, uid, d) ==
  LET own == RlsAttendance(tbl, uid)
      onDate == {r \in BagToSet(own) : r.date = d}
  IN {data \in RowOrders([r \in onDate |-> own[r]]) : OrderedByStudent(data)}

\* loadAttendanceRecords() of the viewer: the response arrives.
ViewerLoadAttendanceRecordsDone ==
  /\ \E l \in vLoads :
       /\ l.kind = "attendance"
       /\ vLoads' = vLoads \ {l}
       /\ \E ok \in BOOLEAN :
            IF ok
            THEN \E data \in SelectByDate(tblAttendance, U1, l.date) :
                   attendanceRecords' = [i \in DOMAIN data |-> ViewerRecord(data[i])]
            ELSE UNCHANGED attendanceRecords
  /\ vLoading' = FALSE
  /\ UNCHANGED <<dbVars, dailyVars, filterVars, smVars, obsVars, formVars, reportVars, editVars, dvVars,
                 showViewer, vStudents, vSelectedDate, vFilterVars>>

\* The date input of the viewer, and the effect it triggers.
ViewerSetSelectedDate(d) ==
  /\ \E e \in Editors : showViewer[e]
  /\ ~vLoading
  /\ d # vSelectedDate
  /\ vSelectedDate' = d
  /\ vLoading' = TRUE
  /\ vLoads' = vLoads \cup ViewerEffectLoads(d)
  /\ UNCHANGED <<dbVars, dailyVars, filterVars, smVars, obsVars, formVars, reportVars, editVars, dvVars,
                 showViewer, vStudents, attendanceRecords, vFilterVars>>

\* onChange of one of the five filter selects of the viewer.
ViewerSetFilter(f, v) ==
  /\ \E e \in Editors : showViewer[e]
  /\ ~vLoading
  /\ \/ f = "department" /\ v # vDepartmentFilter
     \/ f = "class" /\ v # vClassFilter
     \/ f = "shift" /\ v # vShiftFilter
     \/ f = "year" /\ v # vYearFilter
     \/ f = "status" /\ v # statusFilter
  /\ vDepartmentFilter' = IF f = "department" THEN v ELSE vDepartmentFilter
  /\ vClassFilter' = IF f = "class" THEN v ELSE vClassFilter
  /\ vShiftFilter' = IF f = "shift" THEN v ELSE vShiftFilter
  /\ vYearFilter' = IF f = "year" THEN v ELSE vYearFilter
  /\ statusFilter' = IF f = "status" THEN v ELSE statusFilter
  /\ UNCHANGED <<dbVars, dailyVars, filterVars, smVars, obsVars, formVars, reportVars, editVars, dvVars,
                 showViewer, vStudents, attendanceRecords, vLoading, vSelectedDate, vLoads>>

\* attendanceRecords.find(r => r.student_register_number === key)?.status || 'not_marked'
DerivedStatus(records, key) ==
  IF \E i \in DOMAIN records : records[i].student_register_number = key
  THEN records[CHOOSE i \in DOMAIN records :
                 /\ records[i].student_register_number = key
                 /\ \A j \in 1..(i - 1) : records[j].student_register_number # key].status
  ELSE "not_marked"

\* The filters mutated: the class filter is applied to the whole roster
\* instead of the list filtered so far.
GetFilteredRecordsClassOnly ==
  LET ByDept(s) == s.department = vDepartmentFilter
      ByClass(s) == s.class = vClassFilter
      ByShift(s) == s.shift = ParseInt(vShiftFilter)
      ByYear(s) == s.year = vYearFilter
      f1 == IF vDepartmentFilter # AllText THEN SelectSeq(vStudents, ByDept) ELSE vStudents
      f2 == IF vClassFilter # AllText THEN SelectSeq(vStudents, ByClass) ELSE f1
      f3 == IF vShiftFilter # All THEN SelectSeq(f2, ByShift) ELSE f2
      f4 == IF vYearFilter # All THEN SelectSeq(f3, ByYear) ELSE f3
      joined == [i \in DOMAIN f4 |->
                   [student |-> f4[i],
                    status |-> DerivedStatus(attendanceRecords, f4[i].register_number)]]
      ByStatus(x) == statusFilter = All \/ x.status = statusFilter
  IN SelectSeq(joined, ByStatus)

\* getFilteredRecords(): the four roster filters one after another, the join
\* with the loaded records, then the status filter.
GetFilteredRecords ==
  LET ByDept(s) == s.department = vDepartmentFilter
      ByClass(s) == s.class = vClassFilter
      ByShift(s) == s.shift = ParseInt(vShiftFilter)
      ByYear(s) == s.year = vYearFilter
      f1 == IF vDepartmentFilter # AllText THEN SelectSeq(vStudents, ByDept) ELSE vStudents
      f2 == IF vClassFilter # AllText THEN SelectSeq(f1, ByClass) ELSE f1
      f3 == IF vShiftFilter # All THEN SelectSeq(f2, ByShift) ELSE f2
      f4 == IF vYearFilter # All THEN SelectSeq(f3, ByYear) ELSE f3
      joined == [i \in DOMAIN f4 |->
                   [student |-> f4[i],
                    status |-> DerivedStatus(attendanceRecords, f4[i].register_number)]]
      ByStatus(x) == statusFilter = All \/ x.status = statusFilter
  IN SelectSeq(joined, ByStatus)

\* presentCount, absentCount, notMarkedCount
StatusCount(status) ==
  LET Is(x) == x.status = status IN Len(SelectSeq(GetFilteredRecords, Is))

(***************************************************************************)
(* AttendanceViewer (revision with a delete button)                        *)
(***************************************************************************)
\* The delete of the attendance rows mutated: it removes nothing.
DeleteAttendanceOfNone(tbl, uid, key) == tbl

\* from('attendance').delete().eq('student_register_number', key)
DeleteAttendanceOfStudent(tbl, uid, key) ==
  LET gone == {r \in BagToSet(RlsAttendance(tbl, uid)) : r.student_register_number = key}
      keep == BagToSet(tbl) \ gone
  IN [r \in keep |-> tbl[r]]

\* loadStudents(): the response arrives; a non-empty roster makes the effect
\* call loadAttendanceRecords().
DvLoadStudentsDone ==
  /\ "students" \in dvLoads
  /\ \E ok \in BOOLEAN :
       IF ok
       THEN LET data == SelectStudents(tblStudents, U1)
            IN /\ dvStudents' = data
               /\ dvLoading' = IF Len(data) > 0 THEN TRUE ELSE dvLoading
               /\ dvLoads' = IF Len(data) > 0 THEN {"attendance"} ELSE {}
       ELSE /\ dvLoads' = dvLoads \ {"students"}
            /\ UNCHANGED <<dvStudents, dvLoading>>
  /\ dvAlert' = "none"
  /\ UNCHANGED <<dbVars, dailyVars, filterVars, smVars, obsVars, formVars, reportVars, editVars,
                 showViewer, viewerVars, dvRecords, dvFilterVars>>

\* records.map(record => ({ ...record, student_class: ... })); the id of a
\* row is its place in the response.
MergedRecords(data, roster) ==
  [i \in DOMAIN data |->
     [id |-> i, student_register_number |-> data[i].student_register_number,
      status |-> data[i].status, date |-> data[i].date,
      student_class |->
        IF data[i].student_register_number \in RegNums(roster)
        THEN (CHOOSE s \in Range(roster) :
                s.register_number = data[i].student_register_number).class
        ELSE <<"U", "n", "k", "n", "o", "w", "n">>]]

\* loadAttendanceRecords(): the response arrives.
DvLoadAttendanceRecordsDone ==
  /\ "attendance" \in dvLoads
  /\ dvLoads' = dvLoads \ {"attendance"}
  /\ \E ok \in BOOLEAN :
       IF ok
       THEN \E data \in SelectByDate(tblAttendance, U1, D1) :
              dvRecords' = MergedRecords(data, dvStudents)
       ELSE UNCHANGED dvRecords
  /\ dvLoading' = FALSE
  /\ dvAlert' = "none"
  /\ UNCHANGED <<dbVars, dailyVars, filterVars, smVars, obsVars, formVars, reportVars, editVars,
                 showViewer, viewerVars, dvStudents, dvFilterVars>>

\* The status and class selects of this viewer: setStatusFilter / setClassFilter
DvSetFilter(f, v) ==
  /\ \/ f = "status" /\ v # dvStatusFilter
     \/ f = "class" /\ v # dvClassFilter
  /\ dvStatusFilter' = IF f = "status" THEN v ELSE dvStatusFilter
  /\ dvClassFilter' = IF f = "class" THEN v ELSE dvClassFilter
  /\ dvAlert' = "none"
  /\ UNCHANGED <<dbVars, dailyVars, filterVars, smVars, obsVars, formVars, reportVars, editVars,
                 showViewer, viewerVars, dvStudents, dvRecords, dvLoading, dvLoads>>

\* availableClasses: the classes of the loaded records, after 'all'.
DvClassOptions == {AllText} \cup {dvRecords[i].student_class : i \in DOMAIN dvRecords}

\* applyFilters(): filteredRecords, by status and then by class.
DvFilteredRecords ==
  LET ByStatus(r) == r.status = dvStatusFilter
      ByClass(r) == r.student_class = dvClassFilter
      f1 == IF dvStatusFilter # All THEN SelectSeq(dvRecords, ByStatus) ELSE dvRecords
  IN IF dvClassFilter # AllText THEN SelectSeq(f1, ByClass) ELSE f1

\* getStats(): the Present, Absent and Total cards.
DvStats ==
  LET IsPresent(r) == r.status = "present"
      IsAbsent(r) == r.status = "absent"
  IN [present |-> Len(SelectSeq(dvRecords, IsPresent)),
      absent |-> Len(SelectSeq(dvRecords, IsAbsent)),
      total |-> Len(dvRecords)]

\* handleDelete(attendanceId): the Delete button of a listed record (or an id
\* that is listed no more), the confirm() prompt, the two delete requests and
\* the reload of the records.
HandleDelete(attendanceId, answer) ==
  /\ ~dvLoading
  /\ dvLoads = {}
  /\ IF ~\E i \in DOMAIN dvRecords : dvRecords[i].id = attendanceId
     THEN /\ dvAlert' = "Attendance record not found."
          /\ confirmed' = FALSE
          /\ issued' = <<>>
          /\ UNCHANGED <<tblStudents, tblAttendance, dvRecords>>
     ELSE LET key == dvRecords[attendanceId].student_register_number
          IN /\ confirmed' = answer
             /\ IF ~ConfirmAccepted(answer)
                THEN /\ issued' = <<>>
                     /\ dvAlert' = "none"
                     /\ UNCHANGED <<tblStudents, tblAttendance, dvRecords>>
                ELSE \E attOk \in BOOLEAN, stuOk \in BOOLEAN, loadOk \in BOOLEAN :
                       LET cleared == DeleteAttendanceOfStudent(tblAttendance, U1, key)
                           after == AfterDeleteStudent(tblStudents, cleared, U1, key)
                       IN IF ~attOk
                          THEN /\ issued' = <<Req("delete", "attendance", key)>>
                               /\ dvAlert' = "Failed to delete attendance records. Please try again."
                               /\ UNCHANGED <<tblStudents, tblAttendance, dvRecords>>
                          ELSE IF ~stuOk
                          THEN /\ tblAttendance' = cleared
                               /\ issued' = <<Req("delete", "attendance", key),
                                              Req("delete", "students", key)>>
                               /\ dvAlert' = "Failed to delete student record. Please try again."
                               /\ UNCHANGED <<tblStudents, dvRecords>>
                          ELSE /\ tblStudents' = after.students
                               /\ tblAttendance' = after.attendance
                               /\ issued' = <<Req("delete", "attendance", key),
                                              Req("delete", "students", key),
                                              Req("select", "attendance", <<>>)>>
                               /\ dvAlert' = "none"
                               /\ IF loadOk
                                  THEN \E data \in SelectByDate(after.attendance, U1, D1) :
                                         dvRecords' = MergedRecords(data, dvStudents)
                                  ELSE UNCHANGED dvRecords
  /\ UNCHANGED <<tblUsers, authUser, dailyVars, filterVars, smVars, formVars, reportVars, editVars, showViewer,
                 viewerVars, dvStudents, dvLoading, dvLoads, dvFilterVars>>

(***************************************************************************)
(* Specifications                                                          *)
(***************************************************************************)
InitDaily ==
  /\ students = [e \in Editors |-> <<>>]
  /\ attendance = [e \in Editors |-> EmptyObj]
  /\ existingAttendance = [e \in Editors |-> EmptyObj]
  /\ loading = [e \in Editors |-> TRUE]
  /\ saving = [e \in Editors |-> FALSE]
  /\ selectedDate = [e \in Editors |-> D1]
  /\ rosterLoad = [e \in Editors |-> TRUE]
  /\ attLoads = [e \in Editors |-> {}]
  /\ savePc = [e \in Editors |-> "idle"]
  /\ saveCtx = [e \in Editors |-> NoCtx]
  /\ alertMsg = [e \in Editors |-> "none"]
  /\ showViewer = [e \in Editors |-> FALSE]

InitFilters ==
  /\ quickFilter = [e \in Editors |-> All]
  /\ departmentFilter = [e \in Editors |-> AllText]
  /\ classFilter = [e \in Editors |-> AllText]
  /\ shiftFilter = [e \in Editors |-> All]
  /\ yearFilter = [e \in Editors |-> All]

\* Nothing is being edited and no update is outstanding.
InitEdit ==
  /\ editingStudent = <<>>
  /\ smLoading = FALSE
  /\ smUpdates = <<>>

InitSm ==
  /\ smStudents = <<>>
  /\ smRosterLoad = TRUE
  /\ confirmed = FALSE
  /\ authUser = "none"
  /\ issued = <<>>
  /\ showAddForm = FALSE
  /\ smAlert = "none"
  /\ lastSubmit = "none"
  /\ tblStudentsById = {}
  /\ InitEdit

\* StudentManagement in its natural-key revision.
InitSmByKey ==
  /\ InitSm
  /\ smRevision = "key"
  /\ newStudent = EmptyForm

\* MonthlyAnalysis as it mounts; today is 2024-02-29.
InitMonthly ==
  /\ month = 2
  /\ year = 2024
  /\ reportDoc = NoDoc
  /\ reportAlert = "none"
  /\ reportErr = "none"

\* No viewer is mounted.
InitViewer ==
  /\ vStudents = <<>>
  /\ attendanceRecords = <<>>
  /\ vLoading = FALSE
  /\ vSelectedDate = D1
  /\ vDepartmentFilter = AllText
  /\ vClassFilter = AllText
  /\ vShiftFilter = All
  /\ vYearFilter = All
  /\ statusFilter = All
  /\ vLoads = {}

\* The viewer with the delete button is not mounted.
InitDv ==
  /\ dvStudents = <<>>
  /\ dvRecords = <<>>
  /\ dvLoading = FALSE
  /\ dvLoads = {}
  /\ dvAlert = "none"
  /\ dvStatusFilter = All
  /\ dvClassFilter = AllText

InitPages ==
  InitDaily /\ InitFilters /\ InitSmByKey /\ InitMonthly /\ InitViewer /\ InitDv

\* One teacher with a roster of two students and no attendance yet.
Init ==
  /\ tblUsers = {U1}
  /\ tblStudents = {Stu1, Stu2}
  /\ tblAttendance = EmptyBag
  /\ InitPages

\* The marking steps of one editor session on the date it opened with.
MarkingStep(e) ==
  \/ LoadStudentsDone(e)
  \/ LoadExistingAttendanceDone(e)
  \/ \E k \in {R1, R2}, st \in Status : HandleAttendanceChange(e, k, st)
  \/ \E st \in Status : MarkAll(e, st)
  \/ SaveAttendanceStart(e)
  \/ SaveAttendanceDelete(e)
  \/ SaveAttendanceInsert(e)

\* One editor session and the roster manager.
Next ==
  \/ MarkingStep(1)
  \/ SmLoadStudentsDone
  \/ \E k \in {R1, R2}, answer \in BOOLEAN : DeleteStudent(k, answer)

Spec == Init /\ [][Next]_vars

\* Two editor sessions of the same teacher marking the same date for a roster
\* of one student.
InitRace ==
  /\ tblUsers = {U1}
  /\ tblStudents = {Stu1}
  /\ tblAttendance = EmptyBag
  /\ InitPages

NextRace == \E e \in Editors : MarkingStep(e)

SpecRace == InitRace /\ [][NextRace]_vars

\* The roster manager alone, in either revision, with its add-student form.
InitRoster ==
  /\ tblUsers = {U1}
  /\ tblStudents = {Stu1, Stu2}
  /\ tblAttendance = EmptyBag
  /\ InitDaily /\ InitFilters /\ InitSm /\ InitMonthly /\ InitViewer /\ InitDv
  /\ smRevision \in {"key", "id"}
  /\ newStudent = IF smRevision = "key" THEN EmptyForm ELSE EmptyFormById

NextRoster ==
  \/ SmLoadStudentsDone
  \/ ToggleAddForm
  \/ \E f \in TextFields, v \in FieldTexts : SetNewStudent(f, v)
  \/ \E v \in YearOptions : SetNewStudent("year", v)
  \/ AddStudent
  \/ AddStudentById

SpecRoster == InitRoster /\ [][NextRoster]_vars

\* The attendance rows a table starts with: marks is a function from
\* (student, date) pairs to "none", "present" or "absent".
RowsOfMarks(marks) ==
  SetToBag({[student_register_number |-> c[1], date |-> c[2], status |-> marks[c],
             recorded_by |-> U1] : c \in {x \in DOMAIN marks : marks[x] # "none"}})

\* The days of February 2024 attendance was taken on, and the first of March.
F1 == <<2024, 2, 1>>
F15 == <<2024, 2, 15>>
ReportCells == ({R1} \X {F1, F15, D1, D2}) \cup ({R2} \X {F1, F15, D1})

\* The monthly report over a roster of two students (or none) and any marks.
InitReport ==
  /\ tblUsers = {U1}
  /\ \/ /\ tblStudents = {Stu1, Stu2}
        /\ \E marks \in [ReportCells -> {"none", "present", "absent"}] :
             tblAttendance = RowsOfMarks(marks)
     \/ /\ tblStudents = {}
        /\ tblAttendance = EmptyBag
  /\ InitPages

NextReport ==
  \/ \E m \in MonthChoices : SetMonth(m)
  \/ \E y \in YearChoices : SetYear(y)
  \/ GenerateReport

SpecReport == InitReport /\ [][NextReport]_vars

\* A roster of three students with marks on both dates.
ViewMarks ==
  (<<R1, D1>> :> "present") @@ (<<R2, D1>> :> "absent") @@ (<<R1, D2>> :> "absent")
    @@ (<<R3, D2>> :> "present")

InitView ==
  /\ tblUsers = {U1}
  /\ tblStudents = {Stu1, Stu2, Stu3}
  /\ tblAttendance = RowsOfMarks(ViewMarks)
  /\ InitPages

\* The viewer opened from the marking screen: its loads, its date and its filters.
NextView ==
  \/ LoadStudentsDone(1)
  \/ LoadExistingAttendanceDone(1)
  \/ OpenViewer(1)
  \/ CloseViewer(1)
  \/ ViewerLoadStudentsDone
  \/ ViewerLoadAttendanceRecordsDone
  \/ \E d \in Dates : ViewerSetSelectedDate(d)
  \/ \E v \in DepartmentOptions(vStudents) : ViewerSetFilter("department", v)
  \/ \E v \in ClassOptions(vStudents) : ViewerSetFilter("class", v)
  \/ \E v \in ShiftFilterOptions : ViewerSetFilter("shift", v)
  \/ \E v \in YearFilterOptions : ViewerSetFilter("year", v)
  \/ \E v \in StatusFilterOptions : ViewerSetFilter("status", v)

SpecView == InitView /\ [][NextView]_vars

\* The years the user asks for in the filter specification.
YearFilterChoices == {All, "year3"}

\* The filters of the marking screen and of the viewer opened from it.
NextFilter ==
  \/ LoadStudentsDone(1)
  \/ LoadExistingAttendanceDone(1)
  \/ \E v \in QuickFilterOptions : SetFilter(1, "quick", v)
  \/ \E v \in DepartmentOptions(students[1]) : SetFilter(1, "department", v)
  \/ \E v \in ClassOptions(students[1]) : SetFilter(1, "class", v)
  \/ \E v \in ShiftFilterOptions : SetFilter(1, "shift", v)
  \/ \E v \in YearFilterChoices : SetFilter(1, "year", v)
  \/ OpenViewer(1)
  \/ CloseViewer(1)
  \/ ViewerLoadStudentsDone
  \/ ViewerLoadAttendanceRecordsDone
  \/ \E v \in DepartmentOptions(vStudents) : ViewerSetFilter("department", v)
  \/ \E v \in ClassOptions(vStudents) : ViewerSetFilter("class", v)
  \/ \E v \in ShiftFilterOptions : ViewerSetFilter("shift", v)
  \/ \E v \in YearFilterChoices : ViewerSetFilter("year", v)
  \/ \E v \in StatusFilterOptions : ViewerSetFilter("status", v)

SpecFilter == InitView /\ [][NextFilter]_vars

\* The two screens with a delete button, over a roster with any marks.
DeleteCells == ({R1} \X {D1, D2}) \cup ({R2} \X {D1})

InitDelete ==
  /\ tblUsers = {U1}
  /\ tblStudents = {Stu1, Stu2}
  /\ \E marks \in [DeleteCells -> {"none", "present", "absent"}] :
       tblAttendance = RowsOfMarks(marks)
  /\ InitDaily /\ InitFilters /\ InitSmByKey /\ InitMonthly
  /\ InitViewer
  /\ dvStudents = <<>>
  /\ dvRecords = <<>>
  /\ dvLoading = FALSE
  /\ dvLoads = {"students"}
  /\ dvAlert = "none"
  /\ dvStatusFilter = All
  /\ dvClassFilter = AllText

NextDelete ==
  \/ SmLoadStudentsDone
  \/ \E k \in {R1, R2}, answer \in BOOLEAN : DeleteStudent(k, answer)
  \/ DvLoadStudentsDone
  \/ DvLoadAttendanceRecordsDone
  \/ \E id \in 0..MaxRows, answer \in BOOLEAN : HandleDelete(id, answer)

SpecDelete == InitDelete /\ [][NextDelete]_vars

\* The marking screen of either revision over a roster of three students, one
\* of them marked already: toggles, mark-all and the filters.
InitMark ==
  /\ tblUsers = {U1}
  /\ tblStudents = {Stu1, Stu2, Stu3}
  /\ tblAttendance = RowsOfMarks(<<R1, D1>> :> "present")
  /\ InitDaily /\ InitFilters /\ InitSm /\ InitMonthly /\ InitViewer /\ InitDv
  /\ smRevision \in {"key", "id"}
  /\ newStudent = IF smRevision = "key" THEN EmptyForm ELSE EmptyFormById

\* The department and shift selects, which the natural-key revision has.
SetFilterByKey(e, f, v) == smRevision = "key" /\ SetFilter(e, f, v)

NextMark ==
  \/ LoadStudentsDone(1)
  \/ LoadExistingAttendanceDone(1)
  \/ \E k \in {R1, R2, R3}, st \in Status : HandleAttendanceChange(1, k, st)
  \/ \E st \in Status : MarkAll(1, st)
  \/ \E st \in Status : MarkAllById(1, st)
  \/ \E v \in QuickFilterOptions : SetFilter(1, "quick", v)
  \/ \E v \in DepartmentOptions(students[1]) : SetFilterByKey(1, "department", v)
  \/ \E v \in ShiftFilterOptions : SetFilterByKey(1, "shift", v)

SpecMark == InitMark /\ [][NextMark]_vars

\* The marking screen over rows on both dates: edits and changes of the date.
InitDate ==
  /\ tblUsers = {U1}
  /\ tblStudents = {Stu1, Stu2}
  /\ tblAttendance = RowsOfMarks((<<R1, D1>> :> "present") @@ (<<R2, D2>> :> "absent"))
  /\ InitPages

NextDate ==
  \/ LoadStudentsDone(1)
  \/ LoadExistingAttendanceDone(1)
  \/ \E k \in {R1, R2}, st \in Status : HandleAttendanceChange(1, k, st)
  \/ \E d \in Dates : SetSelectedDate(1, d)

SpecDate == InitDate /\ [][NextDate]_vars

\* A student of the other teacher, and that teacher's rows of February 2024.
StuOther == [register_number |-> R2, roll_number |-> <<"2">>, name |-> <<"b">>,
             class |-> <<"c", "s">>, department |-> <<"b", "s", "c">>,
             shift |-> 1, year |-> "year1", added_by |-> U2, created_at |-> 2]
D0 == <<2024, 2, 1>>
OtherRows ==
  SetToBag({[student_register_number |-> R2, status |-> "absent", recorded_by |-> U2,
             date |-> D1],
            [student_register_number |-> R2, status |-> "present", recorded_by |-> U2,
             date |-> D0]})

\* Two teachers, each with one student. The first teacher has one of the
\* pages open, or the marking screen in one window and the roster in another;
\* a component that is not mounted has its initial state and no request
\* outstanding.
InitTenants ==
  /\ tblUsers = {U1, U2}
  /\ tblStudents = {Stu1, StuOther}
  /\ \E own \in {EmptyBag,
                  SetToBag({[student_register_number |-> R1, status |-> "present",
                             recorded_by |-> U1, date |-> D1]})} :
       tblAttendance = own (+) OtherRows
  /\ InitFilters /\ InitMonthly /\ InitViewer
  /\ \E open \in SUBSET {"daily", "roster", "records", "report"} :
       /\ Cardinality(open) = 1 \/ open = {"daily", "roster"}
       /\ students = [e \in Editors |-> <<>>]
       /\ attendance = [e \in Editors |-> EmptyObj]
       /\ existingAttendance = [e \in Editors |-> EmptyObj]
       /\ loading = [e \in Editors |-> TRUE]
       /\ saving = [e \in Editors |-> FALSE]
       /\ selectedDate = [e \in Editors |-> D1]
       /\ rosterLoad = [e \in Editors |-> "daily" \in open]
       /\ attLoads = [e \in Editors |-> {}]
       /\ savePc = [e \in Editors |-> "idle"]
       /\ saveCtx = [e \in Editors |-> NoCtx]
       /\ alertMsg = [e \in Editors |-> "none"]
       /\ showViewer = [e \in Editors |-> FALSE]
       /\ smRosterLoad = ("roster" \in open)
       /\ dvLoads = IF "records" \in open THEN {"students"} ELSE {}
  /\ smStudents = <<>>
  /\ confirmed = FALSE
  /\ authUser = "none"
  /\ issued = <<>>
  /\ showAddForm = FALSE
  /\ smAlert = "none"
  /\ lastSubmit = "none"
  /\ tblStudentsById = {}
  /\ InitEdit
  /\ smRevision = "key"
  /\ newStudent = EmptyForm
  /\ dvStudents = <<>>
  /\ dvRecords = <<>>
  /\ dvLoading = FALSE
  /\ dvAlert = "none"
  /\ dvStatusFilter = All
  /\ dvClassFilter = AllText

\* The Add Student form of the other teacher, filled in with a register number
\* and a roll number the first teacher used.
ReusedForm ==
  [EmptyForm EXCEPT !.register_number = R1, !.roll_number = <<"1">>, !.name = <<"d">>,
                    !.class = <<"c", "s">>, !.department = <<"b", "s", "c">>]

\* addStudent() in the session of the other teacher, as the service serves it:
\* the profile lookup and the insert.  Of that session only the requests are
\* followed, not its screen.
AddStudentByOther ==
  LET row == NewStudentRow(tblStudents, ReusedForm, U2)
  IN /\ ~FormIncomplete(ReusedForm)
     /\ ProfileFound(tblUsers, U2)
     /\ InsertStudentAccepted(tblStudents, tblUsers, U2, row)
     /\ tblStudents' = tblStudents \cup {row}
     /\ UNCHANGED <<tblUsers, tblAttendance, dailyVars, filterVars, smVars, obsVars, pageVars>>

\* deleteStudent(registerNumber) in the session of the other teacher, confirmed
\* and served, for a student that teacher has listed.
DeleteStudentByOther(key) ==
  LET after == AfterDeleteStudent(tblStudents, tblAttendance, U2, key)
  IN /\ key \in RegNums(SelectStudents(tblStudents, U2))
     /\ tblStudents' = after.students
     /\ tblAttendance' = after.attendance
     /\ UNCHANGED <<tblUsers, dailyVars, filterVars, smVars, obsVars, pageVars>>

\* None of the three pages with a list shows one or waits for one.
NoListOpen ==
  /\ \A e \in Editors : ~rosterLoad[e] /\ students[e] = <<>>
  /\ ~smRosterLoad /\ smStudents = <<>>
  /\ dvLoads = {} /\ dvStudents = <<>>

\* The marking screen is not open.
MarkingClosed == \A e \in Editors : ~rosterLoad[e] /\ students[e] = <<>>

\* The Edit button, used while the marking screen is closed.
StartEditAlone(i) == MarkingClosed /\ StartEdit(i)

\* Generate Report, used while no page with a list is open.
GenerateReportAlone == NoListOpen /\ GenerateReport

\* The Delete button of the record viewer, once its roster arrived.
HandleDeleteListed(id, answer) == dvStudents # <<>> /\ HandleDelete(id, answer)

\* Every operation of the first teacher (list, load, save, update, delete,
\* report) on the page that is open, and the roster changes of the other one;
\* next to an open marking screen the roster is used for deleting only.
NextTenants ==
  \/ AddStudentByOther
  \/ \E k \in {R1, R2} : DeleteStudentByOther(k)
  \/ LoadStudentsDone(1)
  \/ LoadExistingAttendanceDone(1)
  \/ \E d \in Dates : SetSelectedDate(1, d)
  \/ \E k \in {R1, R2}, st \in Status : HandleAttendanceChange(1, k, st)
  \/ SaveAttendanceStart(1)
  \/ SaveAttendanceDelete(1)
  \/ SaveAttendanceInsert(1)
  \/ SmLoadStudentsDone
  \/ \E i \in 1..2 : StartEditAlone(i)
  \/ SetEditingStudent("name", <<"x">>)
  \/ UpdateStudent
  \/ \E i \in 1..MaxInFlight : UpdateStudentDone(i)
  \/ \E k \in {R1, R2}, answer \in BOOLEAN : DeleteStudent(k, answer)
  \/ GenerateReportAlone
  \/ DvLoadStudentsDone
  \/ DvLoadAttendanceRecordsDone
  \/ \E id \in 0..MaxRows, answer \in BOOLEAN : HandleDeleteListed(id, answer)

SpecTenants == InitTenants /\ [][NextTenants]_vars

\* The years MonthlyAnalysis is opened in (useState(new Date().getFullYear())):
\* two century years, a leap year and the year before it.
RangeYears == {1900, 2000, 2023, 2024}

\* The first and the last day of every month of those years, written out from
\* the calendar.
CalendarDates ==
  {<<y, m, 1>> : y \in RangeYears, m \in 1..12}
  \cup {<<y, m, 30>> : y \in RangeYears, m \in {4, 6, 9, 11}}
  \cup {<<y, m, 31>> : y \in RangeYears, m \in {1, 3, 5, 7, 8, 10, 12}}
  \cup {<<1900, 2, 28>>, <<2000, 2, 29>>, <<2023, 2, 28>>, <<2024, 2, 29>>}

\* One student with one attendance row on a day of the calendar; the selects
\* of MonthlyAnalysis show a month of the year of the row or of a year next
\* to it.
InitRange ==
  /\ tblUsers = {U1}
  /\ tblStudents = {Stu1}
  /\ InitDaily /\ InitFilters /\ InitSmByKey /\ InitViewer /\ InitDv
  /\ month \in 1..12
  /\ year \in RangeYears
  /\ \E d \in CalendarDates :
       /\ (d[1] - year) \in -1..1
       /\ tblAttendance = SetToBag({[student_register_number |-> R1, status |-> "present",
                                     recorded_by |-> U1, date |-> d]})
  /\ reportDoc = NoDoc
  /\ reportAlert = "none"
  /\ reportErr = "none"

\* The year select offers five consecutive years.
SetYearOffered(y) == (y - year) \in -4..4 /\ SetYear(y)

\* The month select (all twelve options), the year select and Generate Report.
NextRange ==
  \/ \E m \in 1..12 : SetMonth(m)
  \/ \E y \in RangeYears : SetYearOffered(y)
  \/ GenerateReport

SpecRange == InitRange /\ [][NextRange]_vars

\* Two students with rows on the first date, one of them with a row on the
\* second date as well.
InitSave ==
  /\ tblUsers = {U1}
  /\ tblStudents = {Stu1, Stu2}
  /\ tblAttendance = RowsOfMarks(<<R1, D1>> :> "present" @@ <<R2, D1>> :> "absent"
                                   @@ <<R1, D2>> :> "absent")
  /\ InitPages

\* One editor session on the first date: loads, toggles and saves.
NextSave ==
  \/ LoadStudentsDone(1)
  \/ LoadExistingAttendanceDone(1)
  \/ \E k \in {R1, R2}, st \in Status : HandleAttendanceChange(1, k, st)
  \/ SaveAttendanceStart(1)
  \/ SaveAttendanceDelete(1)
  \/ SaveAttendanceInsert(1)

SpecSave == InitSave /\ [][NextSave]_vars

\* One student with a row on either date.
InitSwitch ==
  /\ tblUsers = {U1}
  /\ tblStudents = {Stu1}
  /\ tblAttendance = RowsOfMarks(<<R1, D1>> :> "present" @@ <<R1, D2>> :> "absent")
  /\ InitPages

\* One editor session: loads, toggles, saves and changes of the date, also
\* while a save is in flight.
NextSwitch ==
  \/ LoadStudentsDone(1)
  \/ LoadExistingAttendanceDone(1)
  \/ \E d \in Dates : SetSelectedDate(1, d)
  \/ \E st \in Status : HandleAttendanceChange(1, R1, st)
  \/ SaveAttendanceStart(1)
  \/ SaveAttendanceDelete(1)
  \/ SaveAttendanceInsert(1)

SpecSwitch == InitSwitch /\ [][NextSwitch]_vars

\* One student and no attendance yet.
InitTotals ==
  /\ tblUsers = {U1}
  /\ tblStudents = {Stu1}
  /\ tblAttendance = EmptyBag
  /\ InitPages

\* One editor session on the first date and the monthly report.
NextTotals ==
  \/ LoadStudentsDone(1)
  \/ LoadExistingAttendanceDone(1)
  \/ \E st \in Status : HandleAttendanceChange(1, R1, st)
  \/ SaveAttendanceStart(1)
  \/ SaveAttendanceDelete(1)
  \/ SaveAttendanceInsert(1)
  \/ GenerateReport

SpecTotals == InitTotals /\ [][NextTotals]_vars

\* One editor session on the first date: loads, toggles, mark-all, the quick
\* filter, and saves.
NextKeep ==
  \/ LoadStudentsDone(1)
  \/ LoadExistingAttendanceDone(1)
  \/ \E k \in {R1, R2}, st \in Status : HandleAttendanceChange(1, k, st)
  \/ \E st \in Status : MarkAll(1, st)
  \/ \E v \in QuickFilterOptions : SetFilter(1, "quick", v)
  \/ SaveAttendanceStart(1)
  \/ SaveAttendanceDelete(1)
  \/ SaveAttendanceInsert(1)

SpecKeep == InitSave /\ [][NextKeep]_vars

\* The Save button, pressed while the table has room for the rows of the save.
SaveAttendanceStartInBound(e) ==
  /\ BagCardinality(tblAttendance) + totalMarked(e) <= MaxRows
  /\ SaveAttendanceStart(e)

\* The Present / Absent buttons and the mark-all buttons, left alone while a
\* save is in flight.
ToggleWhileIdle(e, key, status) == savePc[e] = "idle" /\ HandleAttendanceChange(e, key, status)
MarkAllWhileIdle(e, status) == savePc[e] = "idle" /\ MarkAll(e, status)

\* One editor session: loads, toggles, mark-all and saves; nothing is edited
\* while a save is in flight.
NextLive ==
  \/ LoadStudentsDone(1)
  \/ LoadExistingAttendanceDone(1)
  \/ \E k \in {R1, R2}, st \in Status : ToggleWhileIdle(1, k, st)
  \/ \E st \in Status : MarkAllWhileIdle(1, st)
  \/ SaveAttendanceStartInBound(1)
  \/ SaveAttendanceDelete(1)
  \/ SaveAttendanceInsert(1)

\* Every awaited request of saveAttendance() is answered, with rows or with an
\* error.
SpecLive ==
  /\ Init
  /\ [][NextLive]_vars
  /\ WF_vars(SaveAttendanceDelete(1))
  /\ WF_vars(SaveAttendanceInsert(1))

\* The record viewer with the stats cards: its loads and its two filters.
NextStats ==
  \/ DvLoadStudentsDone
  \/ DvLoadAttendanceRecordsDone
  \/ \E v \in {All, "present", "absent"} : DvSetFilter("status", v)
  \/ \E v \in DvClassOptions : DvSetFilter("class", v)

SpecStats == InitDelete /\ [][NextStats]_vars

\* The add-student form of either revision, for a teacher with or without a
\* profile row (students.added_by references users, so without one the
\* teacher has no students yet).
InitProfile ==
  /\ \/ tblUsers = {U1} /\ tblStudents = {Stu1}
     \/ tblUsers = {} /\ tblStudents = {}
  /\ tblAttendance = EmptyBag
  /\ InitDaily /\ InitFilters /\ InitSm /\ InitMonthly /\ InitViewer /\ InitDv
  /\ smRevision \in {"key", "id"}
  /\ newStudent = IF smRevision = "key" THEN EmptyForm ELSE EmptyFormById

NextProfile ==
  \/ SmLoadStudentsDone
  \/ ToggleAddForm
  \/ \E f \in TextFields : SetNewStudent(f, <<"x", " ">>)
  \/ AddStudent
  \/ AddStudentById

SpecProfile == InitProfile /\ [][NextProfile]_vars

\* The rows of table students of the surrogate-id revision.
StuById1 == [id |-> 1, name |-> <<"a">>, class |-> <<"c", "s">>, added_by |-> U1,
             created_at |-> 1]
StuById2 == [id |-> 2, name |-> <<"b">>, class |-> <<"c", "s">>, added_by |-> U1,
             created_at |-> 2]

\* The roster manager of either revision editing a roster of two students.
InitEditing ==
  /\ tblUsers = {U1}
  /\ tblStudents = {Stu1, Stu2}
  /\ tblAttendance = EmptyBag
  /\ InitDaily /\ InitFilters /\ InitMonthly /\ InitViewer /\ InitDv
  /\ smStudents = <<>>
  /\ smRosterLoad = TRUE
  /\ confirmed = FALSE
  /\ authUser = "none"
  /\ issued = <<>>
  /\ showAddForm = FALSE
  /\ smAlert = "none"
  /\ lastSubmit = "none"
  /\ InitEdit
  /\ smRevision \in {"key", "id"}
  /\ newStudent = IF smRevision = "key" THEN EmptyForm ELSE EmptyFormById
  /\ tblStudentsById = IF smRevision = "key" THEN {} ELSE {StuById1, StuById2}

NextEditing ==
  \/ SmLoadStudentsDone
  \/ \E i \in 1..2 : StartEdit(i)
  \/ \E v \in EditTexts : SetEditingStudent("name", v)
  \/ CancelEdit
  \/ UpdateStudent
  \/ \E i \in 1..MaxInFlight : UpdateStudentDone(i)

SpecEditing == InitEditing /\ [][NextEditing]_vars

(***************************************************************************)
(* Properties of the save                                                  *)
(***************************************************************************)
Saved == "Attendance saved successfully!"

\* The rows of tbl for date d and student key.
RowsOf(tbl, d, key) ==
  {r \in BagToSet(tbl) : r.date = d /\ r.student_register_number = key}

\* For every key of working copy att, tbl holds exactly one row for (d, key),
\* and it carries the entry's status.
ExactlyWorkingCopy(tbl, att, d) ==
  \A key \in ObjKeys(att) :
    /\ RowsOf(tbl, d, key) # {}
    /\ \A r \in RowsOf(tbl, d, key) : r.status = ObjGet(att, key) /\ tbl[r] = 1

\* The step in which editor e's saveAttendance() ends on its success path.
SaveSucceeds(e) == savePc[e] = "insert" /\ alertMsg'[e] = Saved

\* The table after one more saveAttendance() with the same closure, both of its
\* requests served.
SavedAgain(tbl, ctx) ==
  InsertAttendance(AfterSaveDelete(tbl, ctx, TRUE),
                   RecordsToInsert(ctx.attendance, ctx.user, ctx.selectedDate))

\* C1 -- When saveAttendance() completes for date d with working copy W, the
\* persisted rows of date d for the keys of W are exactly one row per entry of
\* W with that entry's status, and saving once more with the same W and d
\* leaves the same rows.
C1_SaveReplacesExactly ==
  [][\A e \in Editors :
       SaveSucceeds(e) =>
         /\ ExactlyWorkingCopy(tblAttendance', saveCtx[e].attendance,
                               saveCtx[e].selectedDate)
         /\ SavedAgain(tblAttendance', saveCtx[e]) = tblAttendance']_vars

\* C2 -- In every reachable state the attendance table holds at most one row
\* for each (student, date) pair.
C2_OneRowPerStudentAndDate ==
  \A r1, r2 \in BagToSet(tblAttendance) :
    /\ tblAttendance[r1] = 1
    /\ (r1.student_register_number = r2.student_register_number /\ r1.date = r2.date)
         => r1 = r2

\* C3 -- When two editor sessions save the same date for the same students
\* concurrently, then in every interleaving of their delete and insert requests
\* the rows persisted when a save completes (its own delete having been served)
\* are exactly its working copy; nothing of the other editor's save remains.
C3_LastSaveWinsExactly ==
  [][\A e \in Editors :
       (SaveSucceeds(e) /\ ~saveCtx[e].deleteError) =>
         ExactlyWorkingCopy(tblAttendance', saveCtx[e].attendance,
                            saveCtx[e].selectedDate)]_vars

\* C4 -- Every attendance row references a student of the students table; so
\* once deleteStudent(key) was served, no row references key.
C4_RowsReferenceStudents ==
  /\ \A r \in BagToSet(tblAttendance) :
       \E s \in tblStudents : s.register_number = r.student_register_number
  /\ (Len(issued) = 2 /\ issued[1].op = "delete" /\ issued[1].table = "students")
       => \A r \in BagToSet(tblAttendance) : r.student_register_number # issued[1].key

\* C4 witness: deleteStudent(R1) was served after rows of R1 had been saved.
C4_DeletedWithRows ==
  /\ Len(issued) = 2 /\ issued[1] = Req("delete", "students", R1)
  /\ ObjHas(existingAttendance[1], R1)
  /\ \A s \in tblStudents : s.register_number # R1
  /\ \A r \in BagToSet(tblAttendance) : r.student_register_number # R1

(***************************************************************************)
(* Properties of the roster manager's add-student form                     *)
(***************************************************************************)
\* The text is empty or consists only of whitespace.
OnlyWhitespace(t) == \A i \in DOMAIN t : t[i] = " "

\* A required field of form ns is empty or whitespace.
HasBlankField(ns) ==
  \/ \E f \in TextFields \cap DOMAIN ns : OnlyWhitespace(ns[f])
  \/ "year" \in DOMAIN ns /\ ns.year \in {"", " "}

\* C5 -- addStudent() called with a required field that is empty or only
\* whitespace issues no request (no auth lookup, no profile lookup, no insert)
\* and leaves the students table unchanged, in both revisions.
C5_BlankFieldIssuesNothing ==
  [][((AddStudent \/ AddStudentById) /\ HasBlankField(newStudent)) =>
       (issued' = <<>> /\ tblStudents' = tblStudents
                       /\ tblStudentsById' = tblStudentsById)]_vars

\* C5 witness: the natural-key form was submitted with a name of one space and
\* every other field filled.
C5_BlankNameSubmitted ==
  /\ smRevision = "key" /\ showAddForm /\ lastSubmit = "returned"
  /\ newStudent.name = <<" ">>
  /\ \A f \in TextFields \ {"name"} : newStudent[f] = <<"x", " ">>
  /\ issued = <<>>

(***************************************************************************)
(* Properties of the monthly report                                        *)
(***************************************************************************)
\* The rows of the attendance table dated in month m of year y, and how many
\* of them a student has with a status.
MonthRows(y, m) == {r \in BagToSet(tblAttendance) : r.date[1] = y /\ r.date[2] = m}
RowCount(rows, key, status) ==
  Cardinality({<<r, n>> \in rows \X (1..BagCardinality(tblAttendance)) :
                 /\ r.student_register_number = key /\ r.status = status
                 /\ n <= tblAttendance[r]})

\* Student A with 2 present and 1 absent, student B with 1 present and 2
\* absent, on the three February dates.
ExampleMarks ==
  (<<R1, F1>> :> "present") @@ (<<R1, F15>> :> "present") @@ (<<R1, D1>> :> "absent")
    @@ (<<R2, F1>> :> "present") @@ (<<R2, F15>> :> "absent") @@ (<<R2, D1>> :> "absent")

\* C6 -- In a generated report totalWorkingDays is the number of distinct
\* dates among the month's rows, each student's present and absent counts are
\* the numbers of that student's rows of the month with that status, and the
\* percentage is present / totalWorkingDays * 100 rounded to the nearest
\* integer; for the example marks that is 3 working days, 67 and 33.
C6_ReportTotals ==
  reportDoc # NoDoc =>
    LET rows == MonthRows(reportDoc.year, reportDoc.month)
        total == Cardinality({r.date : r \in rows})
        body == reportDoc.body
    IN /\ reportDoc.totalWorkingDays = total
       /\ \A i \in DOMAIN body :
            LET p == RowCount(rows, body[i].register_number, "present")
                a == RowCount(rows, body[i].register_number, "absent")
                pct == body[i].attendance_percentage
            IN /\ body[i].total_working_days = total
               /\ body[i].present_count = p
               /\ body[i].absent_count = a
               /\ total > 0 => /\ 2 * pct * total <= 200 * p + total
                               /\ 200 * p + total < 2 * pct * total + 2 * total
       /\ rows = BagToSet(RowsOfMarks(ExampleMarks)) =>
            /\ total = 3
            /\ \E i \in DOMAIN body : /\ body[i].register_number = R1
                                      /\ body[i].attendance_percentage = 67
            /\ \E i \in DOMAIN body : /\ body[i].register_number = R2
                                      /\ body[i].attendance_percentage = 33

\* C6 witness: the report of February 2024 over the example marks, with a row
\* of March in the table as well.
C6_ExampleReported ==
  /\ reportDoc # NoDoc /\ reportDoc.year = 2024 /\ reportDoc.month = 2
  /\ MonthRows(2024, 2) = BagToSet(RowsOfMarks(ExampleMarks))
  /\ MonthRows(2024, 3) # {}
  /\ reportDoc.totalWorkingDays = 3
  /\ reportDoc.body[1].attendance_percentage = 67
  /\ reportDoc.body[2].attendance_percentage = 33

\* C7 -- When no attendance row falls in the selected month, generateReport()
\* (its fetches served) ends in the success alert with a report whose
\* totalWorkingDays is 0 and that lists every roster student with counts 0
\* and percentage 0.
C7_EmptyMonthReportsZero ==
  /\ (reportDoc # NoDoc /\ MonthRows(reportDoc.year, reportDoc.month) = {}) =>
       /\ reportDoc.totalWorkingDays = 0
       /\ Len(reportDoc.body) = Cardinality(tblStudents)
       /\ \A i \in DOMAIN reportDoc.body :
            /\ reportDoc.body[i].total_working_days = 0
            /\ reportDoc.body[i].present_count = 0
            /\ reportDoc.body[i].absent_count = 0
            /\ reportDoc.body[i].attendance_percentage = 0
  /\ (reportAlert # "none" /\ reportErr = "none" /\ tblStudents # {}
        /\ MonthRows(year, month) = {}) =>
       /\ reportAlert = ReportGenerated
       /\ reportDoc # NoDoc /\ reportDoc.year = year /\ reportDoc.month = month

\* C7 witness: the report of March 2024 was generated while the table held
\* rows of February only.
C7_EmptyMonthReported ==
  /\ reportAlert = ReportGenerated /\ year = 2024 /\ month = 3
  /\ MonthRows(2024, 3) = {} /\ MonthRows(2024, 2) # {}
  /\ reportDoc # NoDoc /\ reportDoc.month = 3
  /\ reportDoc.totalWorkingDays = 0 /\ Len(reportDoc.body) = 2

(***************************************************************************)
(* Properties of the record viewer and of the filters                      *)
(***************************************************************************)
\* The viewer shows its list.
ViewerShown == (\E e \in Editors : showViewer[e]) /\ ~vLoading

\* The loaded rows of student key.
LoadedFor(key) ==
  {r \in Range(attendanceRecords) : r.student_register_number = key}

\* The loaded rows of student key that are rows of the selected date.
LoadedForDate(key) == {r \in LoadedFor(key) : r.date = vSelectedDate}

\* C8 -- In the Record Viewer, for every listed student and the selected date,
\* the status is not_marked exactly when the loaded rows for that date hold no
\* row for that student, and otherwise it is the status of that row; a student
\* without a row for the date is never shown or counted as absent.
C8_NotMarkedIffNoRow ==
  ViewerShown =>
    /\ \A x \in Range(GetFilteredRecords) :
         LET rows == LoadedForDate(x.student.register_number)
         IN /\ x.status = "not_marked" <=> rows = {}
            /\ rows # {} => \E r \in rows : r.status = x.status
    /\ StatusCount("absent") =
         Cardinality({x \in Range(GetFilteredRecords) :
                        \E r \in LoadedForDate(x.student.register_number) :
                          r.status = "absent"})

\* The text of a shift as the shift select offers it.
ShiftText(n) == IF n = 1 THEN "1" ELSE "2"

\* C9 -- In the Daily Marking Workflow and in the Record Viewer the listed
\* students are exactly the roster students that satisfy every filter that is
\* not 'all', whatever the filter values are and in whatever order they were
\* set.
C9_FiltersComposeWithAnd ==
  /\ LET shown == GetFilteredStudents(1)
     IN /\ Len(shown) = Cardinality(Range(shown))
        /\ Range(shown) =
             {s \in Range(students[1]) :
                /\ quickFilter[1] = All
                     \/ ObjGet(attendance[1], s.register_number) = quickFilter[1]
                /\ departmentFilter[1] = AllText \/ s.department = departmentFilter[1]
                /\ classFilter[1] = AllText \/ s.class = classFilter[1]
                /\ shiftFilter[1] = All \/ ShiftText(s.shift) = shiftFilter[1]
                /\ yearFilter[1] = All \/ s.year = yearFilter[1]}
  /\ LET shown == GetFilteredRecords
     IN /\ Len(shown) = Cardinality(Range(shown))
        /\ {x.student : x \in Range(shown)} =
             {s \in Range(vStudents) :
                /\ vDepartmentFilter = AllText \/ s.department = vDepartmentFilter
                /\ vClassFilter = AllText \/ s.class = vClassFilter
                /\ vShiftFilter = All \/ ShiftText(s.shift) = vShiftFilter
                /\ vYearFilter = All \/ s.year = vYearFilter
                /\ \/ statusFilter = All
                   \/ statusFilter = "not_marked" /\ LoadedFor(s.register_number) = {}
                   \/ \E r \in LoadedFor(s.register_number) : r.status = statusFilter}

\* C9 witness: class and status filters are set in the viewer and list the one
\* present student of the class, while the marking screen behind it has its
\* department and shift filters set and lists one student.
C9_TwoFiltersSet ==
  /\ ViewerShown /\ Len(vStudents) = 3
  /\ vClassFilter = <<"c", "s">> /\ statusFilter = "present"
  /\ {x.student.register_number : x \in Range(GetFilteredRecords)} = {R1}
  /\ departmentFilter[1] = <<"b", "s", "c">> /\ shiftFilter[1] = "2"
  /\ RegNums(GetFilteredStudents(1)) = {R3}

(***************************************************************************)
(* Properties of the delete buttons                                        *)
(***************************************************************************)
\* C10 -- A handler issues a delete request only after its confirm() prompt
\* was accepted; a declined prompt leaves the students and attendance tables
\* and the lists on screen unchanged.
C10_DeleteOnlyWhenConfirmed ==
  [][/\ (\E i \in DOMAIN issued' : issued'[i].op = "delete") => confirmed'
     /\ ((\E k \in {R1, R2} : DeleteStudent(k, FALSE))
           \/ (\E id \in DOMAIN dvRecords : HandleDelete(id, FALSE))) =>
          /\ issued' = <<>>
          /\ UNCHANGED <<dbVars, smVars, dvStudents, dvRecords, dvLoading, dvLoads>>]_vars

\* C10 witness: after a confirmed delete removed the first student, a prompt
\* was declined and the other student and its listed record are still there.
C10_DeclinedAfterAccepted ==
  /\ ~confirmed /\ issued = <<>> /\ dvAlert = "none"
  /\ tblStudents = {Stu2}
  /\ Len(dvRecords) = 1 /\ dvRecords[1].student_register_number = R2
  /\ \E r \in BagToSet(tblAttendance) : r.student_register_number = R2

(***************************************************************************)
(* Properties of mark-all                                                  *)
(***************************************************************************)
\* The students the marking screen of the running revision lists.
Listed(e) ==
  RegNums(IF smRevision = "key" THEN GetFilteredStudents(e) ELSE GetFilteredStudentsById(e))

\* Working copies a and b agree on student key: both lack it or both hold the
\* same status for it.
SameEntry(a, b, key) == ObjHas(a, key) = ObjHas(b, key) /\ ObjGet(a, key) = ObjGet(b, key)

\* C11 -- markAllPresent / markAllAbsent set the status of the students of the
\* currently filtered set only: the working-copy entry of every roster student
\* outside that set is neither added, altered nor removed.
C11_MarkAllTouchesListedOnly ==
  [][\A e \in Editors, st \in Status :
       (MarkAll(e, st) \/ MarkAllById(e, st)) =>
         /\ \A k \in Listed(e) : ObjGet(attendance'[e], k) = st
         /\ \A k \in RegNums(students[e]) \ Listed(e) :
              SameEntry(attendance[e], attendance'[e], k)]_vars

\* The same for the natural-key revision alone.
C11_ByKeyOnly ==
  [][\A e \in Editors, st \in Status :
       MarkAll(e, st) =>
         /\ \A k \in Listed(e) : ObjGet(attendance'[e], k) = st
         /\ \A k \in RegNums(students[e]) \ Listed(e) :
              SameEntry(attendance[e], attendance'[e], k)]_vars

(***************************************************************************)
(* Properties of the dirty check                                           *)
(***************************************************************************)
\* A working copy as a student-to-status map: its entries without their order.
MapOf(o) == {<<o[i].k, o[i].v>> : i \in DOMAIN o}

\* C12 -- The save control is enabled only if the working copy differs from the
\* last-committed snapshot as a student-to-status map and no save is in flight;
\* when the two maps are equal, whatever the order their entries were produced
\* in, saveAttendance cannot be triggered.
C12_SaveOnlyWhenMapsDiffer ==
  \A e \in Editors :
    SaveEnabled(e) =>
      /\ MapOf(attendance[e]) # MapOf(existingAttendance[e])
      /\ ~saving[e]

(***************************************************************************)
(* Properties of the change of date                                        *)
(***************************************************************************)
\* The persisted rows of date d for the roster, as a student-to-status map.
PersistedMap(tbl, roster, d) ==
  {<<r.student_register_number, r.status>> :
     r \in BagToSet(SelectAttendance(tbl, U1, d, RegNums(roster)))}

\* The step in which the load for editor e's selected date returns and no
\* other load of e remains outstanding.
LoadForSelectedDateEnds(e) ==
  /\ \E l \in attLoads[e] : l.date = selectedDate[e] /\ attLoads'[e] = attLoads[e] \ {l}
  /\ attLoads'[e] = {}

\* C13 -- After the selected date was changed (the screen opens on D1) and the
\* load for the new date has finished, successfully or not, the working copy
\* and the committed snapshot both equal the persisted rows of the new date
\* for the roster; no unsaved edit for the previous date remains.
C13_DateChangeDiscardsEdits ==
  [][\A e \in Editors :
       (selectedDate[e] # D1 /\ LoadForSelectedDateEnds(e)) =>
         /\ MapOf(attendance'[e])
              = PersistedMap(tblAttendance', students'[e], selectedDate'[e])
         /\ MapOf(existingAttendance'[e])
              = PersistedMap(tblAttendance', students'[e], selectedDate'[e])]_vars

(***************************************************************************)
(* Properties of the failure handling of the save                          *)
(***************************************************************************)
SaveFailed == "Failed to save attendance"

\* Editor e's saveAttendance() ends in the failure alert with the committed
\* snapshot as it was.
EndsInFailure(e) ==
  /\ alertMsg'[e] = SaveFailed
  /\ existingAttendance'[e] = existingAttendance[e]

\* C14 -- A failure of any remote call of saveAttendance() ends in the failure
\* alert, never in the success alert, and leaves the committed snapshot as it
\* was: the identity lookup (the call ends without going on to the delete), the
\* delete of the day's rows (after which the insert is not issued, so the table
\* is not written), and the insert (the table is left unwritten).
C14_FailedCallEndsInFailure ==
  [][\A e \in Editors :
       /\ (SaveAttendanceStart(e) /\ savePc'[e] = "idle") => EndsInFailure(e)
       /\ (SaveAttendanceInsert(e) /\ saveCtx[e].deleteError) =>
            (EndsInFailure(e) /\ tblAttendance' = tblAttendance)
       /\ (SaveAttendanceInsert(e) /\ tblAttendance' = tblAttendance) =>
            EndsInFailure(e)]_vars

(***************************************************************************)
(* Properties of the roster edits                                          *)
(***************************************************************************)
\* C15 -- While a request of a user-triggered remote action is outstanding its
\* triggering control is disabled, so that no session has two requests of the
\* same action in flight: stated for saveAttendance() and updateStudent(), the
\* two actions whose requests the model keeps in flight.
C15_OneRequestPerAction ==
  /\ \A e \in Editors : savePc[e] # "idle" => ~SaveEnabled(e)
  /\ smUpdates # <<>> => ~UpdateEnabled
  /\ Len(smUpdates) <= 1

\* What updateStudent() must leave alone in a row: primary key, owner and
\* creation time.
Identity(s) ==
  [key |-> IF smRevision = "key" THEN s.register_number ELSE s.id,
   added_by |-> s.added_by, created_at |-> s.created_at]

\* The students table of the running revision.
StudentsTable == IF smRevision = "key" THEN tblStudents ELSE tblStudentsById

\* C16 -- updateStudent changes only mutable attributes of the one row whose
\* primary key is the edited student's: after an update every row keeps its
\* primary key, owner and creation time (no row appears or disappears), and
\* every row with another key is unchanged.
C16_UpdateKeepsKeysAndOtherRows ==
  [][\A i \in 1..MaxInFlight :
       UpdateStudentDone(i) =>
         /\ {Identity(s) : s \in StudentsTable'} = {Identity(s) : s \in StudentsTable}
         /\ Cardinality(StudentsTable') = Cardinality(StudentsTable)
         /\ \A s \in StudentsTable :
              Identity(s).key # smUpdates[i].key => s \in StudentsTable']_vars

\* Witness for C16: an update was served and changed the name of one student of
\* a roster of two, in either revision.
C16_RowUpdated ==
  /\ smUpdates = <<>>
  /\ Cardinality(StudentsTable) = 2
  /\ \E s \in StudentsTable : s.name = <<"x">>
  /\ \E s \in StudentsTable : s.name # <<"x">>

(***************************************************************************)
(* Properties of the ownership of added students                           *)
(***************************************************************************)
\* The last handler step sent an insert to table students.
InsertIssued(reqs) ==
  \E i \in DOMAIN reqs : reqs[i].op = "insert" /\ reqs[i].table = "students"

\* The caller of addStudent() has what the running revision asks for: an
\* identity, and in the natural-key revision a profile row for it.
CallerKnown(uid) ==
  /\ uid = U1
  /\ smRevision = "key" => uid \in tblUsers

\* C17 -- addStudent inserts a student row only when an authenticated identity
\* exists and, in the natural-key revision, table users holds a profile row for
\* it; without them a submission that passed the validation ends in the error
\* alert with no insert issued and no row added, and every row it does insert
\* has added_by equal to the caller's identity.
C17_AddNeedsIdentityAndProfile ==
  [][(AddStudent \/ AddStudentById) =>
       /\ InsertIssued(issued') => CallerKnown(authUser')
       /\ (lastSubmit' = "proceeded" /\ ~CallerKnown(authUser')) =>
            /\ smAlert' = AddFailed
            /\ ~InsertIssued(issued')
            /\ tblStudents' = tblStudents /\ tblStudentsById' = tblStudentsById
       /\ \A row \in (tblStudents' \ tblStudents) \cup (tblStudentsById' \ tblStudentsById) :
            row.added_by = authUser' /\ authUser' = U1]_vars

\* Witness for C17: a complete form was submitted by a signed-in teacher without
\* a profile row, and addStudent() ended in its error alert.
C17_NoProfileRejected ==
  /\ smRevision = "key"
  /\ lastSubmit = "proceeded"
  /\ authUser = U1
  /\ U1 \notin tblUsers
  /\ smAlert = AddFailed
  /\ issued = <<Req("getUser", "auth", <<>>), Req("select", "users", <<>>)>>

(***************************************************************************)
(* Properties of the viewer counts                                         *)
(***************************************************************************)
\* How many elements of a displayed list carry the status.
Displayed(list, status) == Cardinality({i \in DOMAIN list : list[i].status = status})

\* The counts of the viewer with the not-marked status are those of its
\* displayed list.
CountsOfDisplayed ==
  /\ \A st \in {"present", "absent", "not_marked"} :
       StatusCount(st) = Displayed(GetFilteredRecords, st)
  /\ StatusCount("present") + StatusCount("absent") + StatusCount("not_marked")
       = Len(GetFilteredRecords)

\* The counts of the viewer with the stats cards are those of its displayed
\* list.
StatsOfDisplayed ==
  /\ DvStats.present = Displayed(DvFilteredRecords, "present")
  /\ DvStats.absent = Displayed(DvFilteredRecords, "absent")
  /\ DvStats.total = Len(DvFilteredRecords)

\* C18 -- In the Record Viewer, for every filter setting the displayed counts
\* are those of the currently filtered set: each count is the number of
\* displayed students with that status, and the counts sum to the number of
\* displayed students.
C18_CountsOverFilteredSet ==
  /\ ViewerShown => CountsOfDisplayed
  /\ (~dvLoading /\ dvLoads = {}) => StatsOfDisplayed

\* The same for the viewer with the not-marked status alone.
C18_DerivingViewerOnly == ViewerShown => CountsOfDisplayed

(***************************************************************************)
(* Properties of the row-ownership policies                                *)
(***************************************************************************)
\* The students the user added and the attendance rows the user recorded.
StudentsOf(stuTbl, uid) == {x \in stuTbl : x.added_by = uid}
RowsBy(attTbl, uid) ==
  LET own == {r \in BagToSet(attTbl) : r.recorded_by = uid} IN [r \in own |-> attTbl[r]]

\* A step leaves the students and the attendance rows of the user as they are.
Untouched(uid) ==
  /\ StudentsOf(tblStudents', uid) = StudentsOf(tblStudents, uid)
  /\ RowsBy(tblAttendance', uid) = RowsBy(tblAttendance, uid)

\* The step is an operation of the other teacher.
ByOther == AddStudentByOther \/ \E k \in {R1, R2} : DeleteStudentByOther(k)

\* The lists of the first teacher hold students that teacher added.
NoForeignRead ==
  /\ \A e \in Editors : \A i \in DOMAIN students[e] : students[e][i].added_by = U1
  /\ \A i \in DOMAIN smStudents : smStudents[i].added_by = U1
  /\ \A i \in DOMAIN dvStudents : dvStudents[i].added_by = U1

\* The dates of the month on which the user recorded a row.
DatesBy(attTbl, uid, y, m) ==
  {r.date : r \in {x \in BagToSet(RowsBy(attTbl, uid)) : x.date[1] = y /\ x.date[2] = m}}

\* What a step of the first teacher loads or reports comes from the rows that
\* teacher recorded: the records listed are as many as those rows of the day,
\* and the working days of the report are the days of those rows.
OwnRowsRead ==
  /\ dvRecords' # dvRecords =>
       Len(dvRecords') =
         BagCardinality(LET rows == RowsBy(tblAttendance', U1)
                            day == {r \in BagToSet(rows) : r.date = D1}
                        IN [r \in day |-> rows[r]])
  /\ reportDoc' # reportDoc =>
       reportDoc'.totalWorkingDays = Cardinality(DatesBy(tblAttendance, U1, year, month))

\* A step inserts attendance rows only as the insert of a save, stamped with
\* the saving user and the date selected when Save was pressed.
InsertsStamped ==
  \A r \in BagToSet(tblAttendance') :
    CopiesIn(r, tblAttendance') > CopiesIn(r, tblAttendance) =>
      \E e \in Editors :
        /\ savePc[e] = "insert"
        /\ r.recorded_by = saveCtx[e].user
        /\ saveCtx[e].user = U1
        /\ r.date = saveCtx[e].selectedDate

\* C19 -- With several users, no operation of one user (list, load, save,
\* update, delete, report) reads, modifies or deletes a student added by
\* another user or an attendance row recorded by another user, and every row a
\* save inserts carries the saving user and the date selected when the save
\* was triggered.
C19_OwnRowsOnly ==
  /\ [](NoForeignRead)
  /\ [][/\ ByOther => Untouched(U1)
        /\ ~ByOther => Untouched(U2) /\ OwnRowsRead
        /\ InsertsStamped]_vars

\* The same for the operations of the first teacher alone.
C19_FirstTeacherOnly ==
  /\ [](NoForeignRead)
  /\ [][/\ ~ByOther => Untouched(U2) /\ OwnRowsRead
        /\ InsertsStamped]_vars

(***************************************************************************)
(* Properties of the month range                                           *)
(***************************************************************************)
\* The dates of the recorded rows that lie in the month of the year.
DatesOfMonth(y, m) == {r.date : r \in {x \in BagToSet(tblAttendance) : x.date[1] = y /\ x.date[2] = m}}

\* C20 -- For every month 1..12 and 4-digit year, generateReport queries the
\* inclusive range from day 01 to the last calendar day of that month (29
\* February exactly in leap years): a row dated d is included exactly when d
\* lies in that month and year, so the working days reported are the dates of
\* the rows of that month.
C20_RangeIsTheMonth ==
  [][reportAlert' = ReportGenerated =>
       /\ reportDoc'.month = month /\ reportDoc'.year = year
       /\ reportDoc'.totalWorkingDays = Cardinality(DatesOfMonth(year, month))
       /\ \A i \in DOMAIN reportDoc'.body :
            reportDoc'.body[i].present_count + reportDoc'.body[i].absent_count
              = Cardinality(DatesOfMonth(year, month))]_vars

\* C20 -- the report of February 2024 counted the row of the 29th.
C20_LeapDayCounted ==
  /\ reportAlert = ReportGenerated
  /\ reportDoc.month = 2 /\ reportDoc.year = 2024
  /\ DatesOfMonth(2024, 2) = {<<2024, 2, 29>>}
  /\ reportDoc.totalWorkingDays = 1

(***************************************************************************)
(* Properties of a failed action                                           *)
(***************************************************************************)
\* The step ends editor e's saveAttendance() after one of its calls failed:
\* the identity lookup, the delete of the day's rows, or the insert.
FailedSaveEnds(e) ==
  \/ SaveAttendanceStart(e) /\ savePc'[e] = "idle"
  \/ SaveAttendanceInsert(e) /\ (saveCtx[e].deleteError \/ tblAttendance' = tblAttendance)

\* The step leaves what the marking screen of editor e shows as it was, with
\* the saving flag cleared, and the Save button can be pressed again if the
\* screen was dirty.
ScreenAsBefore(e) ==
  /\ attendance'[e] = attendance[e]
  /\ existingAttendance'[e] = existingAttendance[e]
  /\ selectedDate'[e] = selectedDate[e]
  /\ students'[e] = students[e]
  /\ ~saving'[e]
  /\ (hasChanges(e) /\ totalMarked(e) > 0) => SaveEnabled(e)'

\* C21 -- When an action fails, the UI state it owns is as before the action
\* started: after a failed save the working copy, the committed snapshot and
\* the selected date are unchanged and the saving flag is cleared, so that the
\* workflow is still dirty and the save can be retried; a failed delete of a
\* student leaves the listed roster as it was.
C21_FailedActionKeepsState ==
  [][/\ \A e \in Editors : FailedSaveEnds(e) => ScreenAsBefore(e)
     /\ \A k \in {R1, R2} :
          (DeleteStudent(k, TRUE) /\ Len(issued') = 1) => smStudents' = smStudents]_vars

\* The same for the failures saveAttendance() notices: of the identity lookup
\* and of the insert.
C21_NoticedFailuresOnly ==
  [][\A e \in Editors :
       (FailedSaveEnds(e) /\ alertMsg'[e] = SaveFailed) => ScreenAsBefore(e)]_vars

(***************************************************************************)
(* Properties of the save cycle                                            *)
(***************************************************************************)
\* C22 -- Every save that is started eventually leaves the Saving state,
\* whether it succeeds or fails, and after a successful save during which
\* nothing was edited the workflow is clean: the working copy equals the
\* committed snapshot and Save is disabled.
C22_SaveEndsAndLeavesClean ==
  /\ \A e \in Editors : saving[e] ~> ~saving[e]
  /\ [][\A e \in Editors :
          SaveSucceeds(e) =>
            /\ ~saving'[e]
            /\ MapOf(attendance'[e]) = MapOf(existingAttendance'[e])
            /\ ~SaveEnabled(e)']_vars

\* The same for the saves during which no load arrived either.
C22_WithoutLoadInFlight ==
  /\ \A e \in Editors : saving[e] ~> ~saving[e]
  /\ [][\A e \in Editors :
          (SaveSucceeds(e) /\ attendance[e] = saveCtx[e].attendance) =>
            /\ ~saving'[e]
            /\ MapOf(attendance'[e]) = MapOf(existingAttendance'[e])
            /\ ~SaveEnabled(e)']_vars

(***************************************************************************)
(* Properties of the toggle                                                *)
(***************************************************************************)
\* C23 -- handleAttendanceChange changes only the toggled student's entry of
\* the working copy: every other entry, the committed snapshot, the roster,
\* the selected date and all persisted attendance rows are as before.
C23_ToggleChangesOneEntry ==
  [][\A e \in Editors, k \in {R1, R2, R3}, st \in Status :
       HandleAttendanceChange(e, k, st) =>
         /\ ObjGet(attendance'[e], k) = st
         /\ \A k2 \in {R1, R2, R3} \ {k} : SameEntry(attendance[e], attendance'[e], k2)
         /\ \A e2 \in Editors \ {e} : attendance'[e2] = attendance[e2]
         /\ existingAttendance' = existingAttendance
         /\ students' = students
         /\ selectedDate' = selectedDate
         /\ dbVars' = dbVars]_vars

\* C23 -- a loaded mark was toggled next to another mark: the working copy
\* differs from the snapshot and from the persisted row in that entry only.
C23_ToggledNextToAnother ==
  /\ ObjGet(attendance[1], R1) = "absent"
  /\ ObjGet(existingAttendance[1], R1) = "present"
  /\ ObjGet(attendance[1], R2) = "present"
  /\ ~ObjHas(attendance[1], R3)
  /\ tblAttendance = RowsOfMarks(<<R1, D1>> :> "present")

(***************************************************************************)
(* Properties of the rows a save leaves alone                              *)
(***************************************************************************)
\* Row r is one the save with closure ctx addresses: of its date and of a
\* student of its working copy.
Addressed(r, ctx) ==
  r.date = ctx.selectedDate /\ r.student_register_number \in ObjKeys(ctx.attendance)

\* C24 -- A save for date d with working copy W leaves every persisted row of
\* another date and every row of date d of a student outside the keys of W as
\* it is: its delete and its insert touch rows of (d, keys of W) only.
C24_SaveTouchesAddressedRowsOnly ==
  [][\A e \in Editors :
       (SaveAttendanceStart(e) \/ SaveAttendanceDelete(e) \/ SaveAttendanceInsert(e)) =>
         \A r \in BagToSet(tblAttendance) \cup BagToSet(tblAttendance') :
           ~Addressed(r, IF savePc[e] = "idle" THEN saveCtx'[e] ELSE saveCtx[e]) =>
             CopiesIn(r, tblAttendance') = CopiesIn(r, tblAttendance)]_vars

\* C24 -- a save of r1 alone for the first date went through: the row of r2 of
\* that date and the row of r1 of the other date are still there.
C24_SavedNextToOtherRows ==
  /\ alertMsg[1] = Saved
  /\ ObjKeys(existingAttendance[1]) = {R1}
  /\ tblAttendance = RowsOfMarks(<<R1, D1>> :> "absent" @@ <<R2, D1>> :> "absent"
                                   @@ <<R1, D2>> :> "absent")

(***************************************************************************)
(* Properties of overlapping loads                                         *)
(***************************************************************************)
\* The step in which the last outstanding load of editor e returns with rows
\* that the screen takes over.
LastLoadApplied(e) ==
  /\ LoadExistingAttendanceDone(e)
  /\ attLoads'[e] = {}
  /\ <<attendance'[e], existingAttendance'[e]>> # <<attendance[e], existingAttendance[e]>>

\* C25 -- When the selected date is changed several times in quick succession
\* and the load responses arrive in any order, then once all loads have
\* completed the working copy and the committed snapshot hold the rows of the
\* currently selected date, never those of a date selected earlier.
C25_LoadsEndOnSelectedDate ==
  [][\A e \in Editors :
       LastLoadApplied(e) =>
         /\ MapOf(existingAttendance'[e])
              = PersistedMap(tblAttendance, students[e], selectedDate[e])
         /\ MapOf(attendance'[e])
              = PersistedMap(tblAttendance, students[e], selectedDate[e])]_vars

(***************************************************************************)
(* Properties of a date change during a save                               *)
(***************************************************************************)
\* The step in which editor e's save, triggered on another date than the one
\* selected now, ends after the load of the selected date was taken over.
SaveEndsAfterNewLoad(e) ==
  /\ SaveAttendanceInsert(e)
  /\ saveCtx[e].selectedDate # selectedDate[e]
  /\ attLoads[e] = {}
  /\ MapOf(existingAttendance[e]) = PersistedMap(tblAttendance, students[e], selectedDate[e])

C26_RowsUnderTriggerDate ==
  [][\A e \in Editors :
       SaveAttendanceInsert(e) =>
         \A r \in BagToSet(tblAttendance') :
           CopiesIn(r, tblAttendance') > CopiesIn(r, tblAttendance) =>
             r.date = saveCtx[e].selectedDate]_vars

(***************************************************************************)
(* Properties of the committed snapshot                                    *)
(***************************************************************************)
\* Editor e's committed snapshot holds the persisted rows of the selected date
\* for the roster.
SnapshotPersisted(e) ==
  MapOf(existingAttendance[e]) = PersistedMap(tblAttendance, students[e], selectedDate[e])

\* The same for the students the save in flight does not address.
SnapshotPersistedBeside(e) ==
  LET beside == RegNums(students[e]) \ ObjKeys(saveCtx[e].attendance)
  IN {p \in MapOf(existingAttendance[e]) : p[1] \in beside}
       = {p \in PersistedMap(tblAttendance, students[e], selectedDate[e]) : p[1] \in beside}

\* C27 -- With a single editor, whenever the workflow is idle after a load,
\* the committed snapshot equals the persisted rows of (selected date, roster),
\* also after a save that failed at its delete or at its insert: stated for
\* the step that ends a save with no load outstanding.
C27_SnapshotIsPersistedWhenIdle ==
  [][(/\ SaveAttendanceInsert(1)
      /\ attLoads[1] = {}
      /\ saveCtx[1].selectedDate = selectedDate[1]
      /\ SnapshotPersistedBeside(1)) => SnapshotPersisted(1)']_vars

(***************************************************************************)
(* Properties of the report after saves                                    *)
(***************************************************************************)
\* C28 -- In every student row of every monthly report produced after any
\* sequence of saves, present_count + absent_count is at most
\* total_working_days and the attendance percentage lies in 0..100.
C28_CountsWithinWorkingDays ==
  \A i \in DOMAIN reportDoc.body :
    /\ reportDoc.body[i].present_count + reportDoc.body[i].absent_count
         <= reportDoc.body[i].total_working_days
    /\ reportDoc.body[i].attendance_percentage \in 0..100

(***************************************************************************)
(* Properties of the delete button of the record viewer                    *)
(***************************************************************************)
AttendanceDeleteFailed == "Failed to delete attendance records. Please try again."
StudentDeleteFailed == "Failed to delete student record. Please try again."

\* The attendance rows of student key.
RowsOfStudent(tbl, key) == {r \in BagToSet(tbl) : r.student_register_number = key}

\* C29 -- In handleDelete of the viewer with the delete button the student row
\* is deleted only after the delete of that student's attendance rows returned
\* without error: when that delete reports an error the student row and its
\* attendance rows are all still there, when the student delete reports one the
\* attendance rows are gone and the student row is there, and for a record id
\* that is not among the loaded records no request is issued.
C29_StudentDeletedAfterRows ==
  [][\A id \in 0..MaxRows, answer \in BOOLEAN :
       HandleDelete(id, answer) =>
         IF id \notin DOMAIN dvRecords
         THEN issued' = <<>> /\ dbVars' = dbVars
         ELSE LET key == dvRecords[id].student_register_number
              IN /\ tblStudents' # tblStudents =>
                      /\ Len(issued') >= 2
                      /\ issued'[1] = Req("delete", "attendance", key)
                      /\ issued'[2] = Req("delete", "students", key)
                      /\ RowsOfStudent(tblAttendance', key) = {}
                 /\ dvAlert' = AttendanceDeleteFailed =>
                      /\ issued' = <<Req("delete", "attendance", key)>>
                      /\ dbVars' = dbVars
                 /\ dvAlert' = StudentDeleteFailed =>
                      /\ tblStudents' = tblStudents
                      /\ RowsOfStudent(tblAttendance', key) = {}]_vars

\* C29 -- the delete of the attendance rows of a listed student reported an
\* error: the student and its rows are still there.
C29_RowsDeleteFailed ==
  /\ dvAlert = AttendanceDeleteFailed
  /\ Stu1 \in tblStudents
  /\ RowsOfStudent(tblAttendance, R1) # {}
  /\ \E i \in DOMAIN dvRecords : dvRecords[i].student_register_number = R1

(***************************************************************************)
(* The working copy between two loads                                      *)
(***************************************************************************)
\* The operations of the marking screen other than the loads.
UiOperation(e) ==
  \/ \E k \in {R1, R2}, st \in Status : HandleAttendanceChange(e, k, st)
  \/ \E st \in Status : MarkAll(e, st)
  \/ \E v \in QuickFilterOptions : SetFilter(e, "quick", v)
  \/ SaveAttendanceStart(e)
  \/ SaveAttendanceDelete(e)
  \/ SaveAttendanceInsert(e)

\* The students with a row of date d.
MarkedOn(tbl, d) == {r.student_register_number : r \in {x \in BagToSet(tbl) : x.date = d}}

\* C30 -- Between two loads no operation of the marking screen (toggle, mark
\* all present, mark all absent, save, filter change) removes a student from the
\* working copy and every value stays present or absent; the delete of a save
\* removes rows of students of the captured working copy only, nothing else
\* touches the table while the save runs, and a successful insert leaves every
\* student who had a row of that date, and every student of the working copy,
\* with one.
C30_MarkedStudentsOnlyGrow ==
  /\ [][UiOperation(1) =>
          /\ ObjKeys(attendance[1]) \subseteq ObjKeys(attendance'[1])
          /\ \A i \in DOMAIN attendance'[1] : attendance'[1][i].v \in Status]_vars
  /\ [][SaveAttendanceDelete(1) =>
          \A d \in Dates :
            MarkedOn(tblAttendance, d) \ MarkedOn(tblAttendance', d)
              \subseteq (IF d = saveCtx[1].selectedDate THEN ObjKeys(saveCtx[1].attendance)
                         ELSE {})]_vars
  /\ [][savePc[1] = "insert" /\ savePc'[1] = "insert" =>
          tblAttendance' = tblAttendance /\ saveCtx' = saveCtx]_vars
  /\ [][SaveAttendanceInsert(1) /\ alertMsg'[1] = "Attendance saved successfully!" =>
          /\ \A d \in Dates : MarkedOn(tblAttendance, d) \subseteq MarkedOn(tblAttendance', d)
          /\ ObjKeys(saveCtx[1].attendance)
               \subseteq MarkedOn(tblAttendance', saveCtx[1].selectedDate)]_vars

\* C30 -- a save of a working copy that holds one of the two students who had
\* a row of the date succeeded while the quick filter hides the other: both
\* have a row of that date.
C30_SavedPartOfTheDay ==
  /\ alertMsg[1] = "Attendance saved successfully!"
  /\ quickFilter[1] # All
  /\ ObjKeys(existingAttendance[1]) = {R1}
  /\ MarkedOn(tblAttendance, D1) = {R1, R2}

====
